---- MODULE Spec2Model ----
(***************************************************************************)
(* A state-machine model of the NullablePointers checker of the Clang      *)
(* Static Analyzer (clang/lib/StaticAnalyzer/Checkers/                     *)
(* NullablePointersChecker.cpp).  One analysis path is modelled: State is  *)
(* the ProgramState of the current exploded node, projected on a fixed     *)
(* set of tracked pointer-typed regions, and every action is one checker   *)
(* hook (or the fixed sequence of hooks the engine runs for one            *)
(* expression) applied to that state.                                      *)
(***************************************************************************)
EXTENDS Naturals, FiniteSets, Sequences, TLC

VARIABLES
  State,    \* the ProgramState of the current node of the path
  sunk,     \* the path has ended in a sink node
  diag,     \* the bug type reported by the last step, or NoDiag
  checked,  \* the region the last step has read and the form of the
            \* dereference it has checked ("load" for a plain read), or NoDeref
  lost,     \* regions whose escape record a call made Invalid, with no
            \* null check on the region since
  escaped,  \* p's address was stored to a plain non-local pointer-to-pointer
            \* ("stored"), and a call outside the allow-list followed with
            \* no null check on p since ("called")
  volatileShared, \* an address has been stored to a global or passed to a
                  \* call through a chain with a non-const volatile level
  hist,     \* in the call machine: the regions checked non-null with no
            \* assignment or other check since (proved), and those with a
            \* call outside the allow-list and no check or assignment since
            \* (called); NoHistory in the other machines
  MV,       \* the ModsVisitor of the loop under analysis: the locations
            \* of its LocEnv with their ModKind and their
            \* ConditionalSafetyDependencies; NoMods outside a loop
  loop      \* in the loop machine: the loop under analysis, the position
            \* of the path in it and the block count of its head; NoLoop
            \* in the other machines

vars == <<State, sunk, diag, checked, lost, escaped, volatileShared, hist, MV, loop>>

(***************************************************************************)
(* Enumerations of the checker.                                            *)
(***************************************************************************)
\* enum class NullConstraint
IsNull == "IsNull"
IsNotNull == "IsNotNull"
Unknown == "Unknown"

\* enum NullableKind; NoEntry is the absence of a NullabilityMap entry
NonNullable == "NonNullable"
Nullable == "Nullable"
VolatileNullable == "VolatileNullable"
NoEntry == "NoEntry"

\* enum ConstraintValidity
Valid == "Valid"
AlwaysValid == "AlwaysValid"
Invalid == "Invalid"
AlwaysInvalid == "AlwaysInvalid"

\* struct EscapedNullableState; NoRecord is the absence of a map entry
EscapedNullableState(c, v) == [Constraint |-> c, Validity |-> v]
NoRecord == [Constraint |-> "None", Validity |-> "None"]

\* enum class Weakening; NoWeaken is the absence of a WeakenMap entry
Invariant == "Invariant"
Variant == "Variant"
NoWeaken == "NoWeaken"

\* the bug types of the checker; NoDiag is "no report"
NoDiag == "none"
BugNullablePointerDereference == "NullablePointerDereference"
BugNullalbeNullptrDeference == "NullptrDereference"
BugUndefinedNullable == "UndefinedNullable"
BugUndefinedNonNullable == "UndefinedNonNullable"
BugNullptrToNonNullable == "NullptrToNonNullable"
BugNullableToNonNullable == "NullableToNonNullable"
BugVolatilePointerEscape == "VolatilePointerEscape"

(***************************************************************************)
(* The tracked regions (the program under analysis).                       *)
(*   p   local        int *p            (a by-value parameter)             *)
(*   pp  local        int **pp = &p                                        *)
(*   g   global       int *g                                               *)
(*   n   gn.ptr_      of a global       gsl::not_null<int *> gn            *)
(*   w   gw.ptr_      of a non-local    gsl::not_null<int **> gw           *)
(*   pn  local        gsl::not_null<int *> *pn                             *)
(*   sym the symbolic region an int ** of unknown value points to          *)
(*   ref  the symbolic region the parameter  int *&ref           refers to *)
(*   cref the symbolic region the parameter  int *const &cref    refers to *)
(*   vr   the symbolic region the parameter  int *volatile &vr   refers to *)
(*   lv   local        int *lv, named only through the local reference     *)
(*                     int *volatile &lr = lv                              *)
(***************************************************************************)
Regions == {"p", "pp", "g", "n", "w", "pn", "sym", "ref", "cref", "vr", "lv"}

\* the symbolic regions: they lie in the unknown memory space
SymbolicRegions == {"sym", "ref", "cref", "vr"}

\* Abstract SVals of pointer type.  A symbol carries the range constraint
\* the constraint manager holds for it.
\*   Undef  UndefinedVal
\*   Zero   loc::ConcreteInt 0, or a symbol constrained to be null
\*   SymU / SymNN  a symbolic region value that is unconstrained /
\*                 constrained to be non-null
\*   Addr   the address of an untracked variable     &p  the address of p
\*   &g     the address of g                          &pp the address of pp
Val == {"Undef", "Zero", "SymU", "SymNN", "Addr", "&p", "&g", "&pp"}

\* SVal::getAsRegion: the tracked region a value points to, "untracked" for
\* another region (a symbolic region, another variable), "none" for no region
getAsRegion(v) ==
  CASE v = "&p" -> "p"
    [] v = "&g" -> "g"
    [] v = "&pp" -> "pp"
    [] v = "SymU" -> "sym"
    [] v \in {"Zero", "Undef"} -> "none"
    [] OTHER -> "untracked"

\* isLValLoc of a value: the address of a variable, parameter or field
isLValLocVal(v) == v \in {"&p", "&g", "&pp", "Addr"}

\* isLValLoc: field, parameter and variable regions
isLValLoc(r) == r \in Regions \ SymbolicRegions

\* isGLValLoc: isLValLoc or a temporary object region
isGLValLoc(r) == isLValLoc(r)

\* isGlobalRegion: a subregion of a globals space or of the unknown space
isGlobalRegion(r) == r \in {"g", "n", "w"} \cup SymbolicRegions

\* isNonNullableGLValLoc / isRegionNotNullPtrField: the ptr_ field of a wrapper
isNonNullableGLValLoc(r) == r \in {"n", "w"}

isRegionNotNullPtrField(r) == r \in {"n", "w"}

\* the type of the location of r (SVal::getType) is an lvalue reference
\* type whose pointee is volatile-qualified: so it is for the symbolic
\* region of a reference to volatile; the location of a variable, parameter
\* or field has a pointer type
isVolatileRefLoc(r) == r = "vr"

\* the type of the value held by r is const-qualified
isConstValueType(r) == r = "cref"

\* getLocTypeRank of the location type of r: an lvalue reference type counts
\* one level more than a pointer type
getLocTypeRank(r) == IF r \in {"pp", "w", "ref", "cref", "vr"} THEN 2 ELSE 1

\* getNullConstraint(Val, State)
getNullConstraint(v) ==
  CASE v = "Undef" -> Unknown
    [] v = "SymNN" -> IsNotNull
    [] v = "Zero" -> IsNull
    [] v \in {"Addr", "&p", "&g", "&pp"} -> IsNotNull
    [] OTHER -> Unknown

\* getNullConstraint of the location of a region (checkPreCall passes makeLoc(R))
getNullConstraintOfLoc(r) == IF isGLValLoc(r) THEN IsNotNull ELSE Unknown

\* ProgramState::assume(V != 0, true) on a value: the constrained value, or
\* "infeasible" when the constraint manager refuses the assumption
assumeNonNull(v) ==
  CASE v = "SymU" -> "SymNN"
    [] v \in {"SymNN", "Addr", "&p", "&g", "&pp"} -> v
    [] OTHER -> "infeasible"

\* ProgramState::assume(V != 0, false)
assumeNull(v) ==
  CASE v \in {"SymU", "Zero"} -> "Zero"
    [] OTHER -> "infeasible"

(***************************************************************************)
(* The ProgramState: the store and the checker's GDM maps.                 *)
(***************************************************************************)
InitStore == [r \in Regions |-> IF r = "pp" THEN "&p" ELSE "SymU"]

\* The nullable objects of the program under analysis, by the order of
\* their NullableObjectStateKey.  The worklists of setAliasInternal and
\* updateConstraint are SmallVectors of a trivially copyable key: when one
\* outgrows its inline capacity the members are copied to the heap and the
\* inline buffer, which the loop iterators point into, is left as it is, so
\* that the loops run over the initial members whatever the size.
NumKeys == 4

Keys == 1..NumKeys

\* The symbols conjured for the raw pointers the nullable objects are
\* converted to, by the order of their addresses (the order of the
\* PtrToDNOAliasMap).  The first conversion of the object of key k conjures
\* symbol k.
Symbols == Keys

\* no DNOConstraintMap entry / no DNOAliasMap entry
NoConstraint == "None"

NoAliases == {0}

InitState ==
  [Store |-> InitStore,
   NullabilityMap |-> [r \in Regions |-> NoEntry],
   EscapedNullable |-> [r \in Regions |-> NoRecord],
   NonLocalNullable |-> {},
   WeakenMap |-> [r \in Regions |-> NoWeaken],
   WeakenExprs |-> {},
   DNOConstraintMap |-> [k \in Keys |-> NoConstraint],
   DNOAliasMap |-> [k \in Keys |-> NoAliases],
   PtrToDNOAliasMap |-> [y \in Symbols |-> {}],
   DNOToPtrAliasMap |-> [k \in Keys |-> {}],
   SymbolConstraints |-> [y \in Symbols |-> Unknown],
   AliasGuard |-> FALSE,
   PtrGuards |-> {}]

(***************************************************************************)
(* CheckerContext: what a hook hands back to the engine.                   *)
(*   trans  the hook called addTransition(State)                           *)
(*   diag   the hook called reportBug, which makes an error node (a sink)  *)
(*          for errState                                                   *)
(***************************************************************************)
Transition(S) == [State |-> S, diag |-> NoDiag, trans |-> TRUE, errState |-> S]

NoTransition(S) == [State |-> S, diag |-> NoDiag, trans |-> FALSE, errState |-> S]

\* reportBug(BT, State) followed by a return
reportBug(S, bt) == [State |-> S, diag |-> bt, trans |-> FALSE, errState |-> S]

\* reportBug(BT, ErrS) followed later by addTransition(S)
reportBugThenTransition(ErrS, bt, S) == [State |-> S, diag |-> bt, trans |-> TRUE, errState |-> ErrS]

\* CheckerContext::addTransition makes a node only for a state that differs
\* from the predecessor's (it returns Pred otherwise)
addsNode(Pred, res) == res.trans /\ res.State # Pred

\* The path goes on after a hook unless the hook made an error node and no
\* other node: generateErrorNode takes Pred out of the frontier.
live(Pred, res) == res.diag = NoDiag \/ addsNode(Pred, res)

\* the state the path is in after the hook
after(Pred, res) ==
  IF addsNode(Pred, res) THEN res.State
  ELSE IF res.diag # NoDiag THEN res.errState
  ELSE Pred

(***************************************************************************)
(* checkLocation                                                           *)
(***************************************************************************)
\* the load of a weakened expression: invalidate the region, drop the mark
\* and, for an invariant weakening, re-assume the old constraint on the
\* new value
weakenLoad(S, r) ==
  LET W == S.WeakenMap[r]
      C == getNullConstraint(S.Store[r])
      WV == IF W = Invariant /\ C = IsNull THEN "Zero"
            ELSE IF W = Invariant /\ C = IsNotNull THEN "SymNN"
            ELSE "SymU"
  IN IF W = NoWeaken THEN S
     ELSE [S EXCEPT !.Store[r] = WV, !.WeakenMap[r] = NoWeaken]

\* the escape-record part of a load: an Invalid record whose region holds a
\* value of known nullness is refreshed, an AlwaysInvalid one always is
refreshEscaped(S, r, RhsNullness) ==
  LET E == S.EscapedNullable[r]
  IN IF E.Validity = Invalid /\ RhsNullness # Unknown
     THEN [S EXCEPT !.Store[r] = "SymU",
                    !.EscapedNullable[r] = EscapedNullableState(Unknown, Valid)]
     ELSE IF E.Validity = AlwaysInvalid
     THEN [S EXCEPT !.Store[r] = "SymU"]
     ELSE S

\* the load from the ptr_ field of a wrapper: V is the value read on entry
\* of the hook, and the assumption is made on V, not on the current binding
loadNonNullable(S, r, V, LNullability, RhsNullness) ==
  LET S1 == IF LNullability # NoEntry /\ LNullability # NonNullable
            THEN [S EXCEPT !.NullabilityMap[r] = NonNullable]
            ELSE S
  IN IF RhsNullness # IsNotNull /\ S1.Store[r] = V
     THEN [S1 EXCEPT !.Store[r] = assumeNonNull(V)]
     ELSE S1

\* the assumption V != 0 of that load is refused by the constraint manager:
\* the hook then holds a null state, and addTransition(nullptr) adds nothing
loadInfeasible(r, V, RhsNullness) ==
  isNonNullableGLValLoc(r) /\ RhsNullness # IsNotNull /\ assumeNonNull(V) = "infeasible"

\* the nullability part of a load, the else-if chain after the wrapper case
loadNullability(S, r, LNullability) ==
  IF LNullability = VolatileNullable
  THEN [S EXCEPT !.Store[r] = "SymU"]
  ELSE IF isVolatileRefLoc(r)
  THEN [S EXCEPT !.NullabilityMap[r] = VolatileNullable, !.Store[r] = "SymU"]
  ELSE IF isGLValLoc(r) /\ LNullability = NoEntry
  THEN [S EXCEPT !.NullabilityMap[r] = Nullable]
  ELSE S

\* checkLocation(L, IsLoad = true): the whole hook
checkLocationLoad(S, r) ==
  LET IsValWeakened == S.WeakenMap[r] # NoWeaken
      S0 == weakenLoad(S, r)
      LNullability == S0.NullabilityMap[r]
      V == S0.Store[r]
      RhsNullness == getNullConstraint(V)
      S1 == refreshEscaped(S0, r, RhsNullness)
      S2 == IF isNonNullableGLValLoc(r)
            THEN loadNonNullable(S1, r, V, LNullability, RhsNullness)
            ELSE loadNullability(S1, r, LNullability)
      S3 == IF isGlobalRegion(r) /\ ~isConstValueType(r) /\ ~IsValWeakened
            THEN [S2 EXCEPT !.NonLocalNullable = @ \cup {r}]
            ELSE S2
  IN IF V = "Undef"
     THEN reportBug(S0, IF LNullability = NonNullable
                        THEN BugUndefinedNonNullable ELSE BugUndefinedNullable)
     ELSE IF loadInfeasible(r, V, RhsNullness) THEN NoTransition(S)
     ELSE Transition(S3)

\* checkLocation(L, IsLoad = false): a store drops the weaken mark
checkLocationStore(S, r) ==
  IF S.WeakenMap[r] # NoWeaken
  THEN Transition([S EXCEPT !.WeakenMap[r] = NoWeaken])
  ELSE NoTransition(S)

(***************************************************************************)
(* Pointer types are given by the qualifiers of their pointer-typed        *)
(* pointee levels, outermost first: int ** is <<"none">>, int *const * is  *)
(* <<"const">>, int *volatile ** is <<"none", "volatile">>, int * is <<>>. *)
(***************************************************************************)
isConstQualified(q) == q \in {"const", "cv"}

isVolatileQualified(q) == q \in {"volatile", "cv"}

\* ProgramState::getSVal(V.castAs<Loc>()): the value held where V points to
getSVal(S, V) ==
  IF getAsRegion(V) \in Regions THEN S.Store[getAsRegion(V)]
  ELSE "SymU"

\* the value the record of an escaped region is made from: the pointer
\* itself for a symbolic region, the value held by the region otherwise
escapedValue(S, V) == IF getAsRegion(V) = "sym" THEN V ELSE getSVal(S, V)

\* ProgramState::set<EscapedNullable>, projected on the tracked regions
setEscaped(S, VR, rec) ==
  IF VR \in Regions THEN [S EXCEPT !.EscapedNullable[VR] = rec] ELSE S

\* checkPointerAddressEscapes(State, L, V) for a global L whose value type
\* is T; null is the nullptr the function returns for a volatile level
RECURSIVE checkPointerAddressEscapes(_, _, _)
checkPointerAddressEscapes(S, T, V) ==
  IF T = <<>> \/ isConstQualified(Head(T)) \/ getAsRegion(V) = "none"
  THEN [null |-> FALSE, State |-> S]
  ELSE IF isVolatileQualified(Head(T))
  THEN [null |-> TRUE, State |-> S]
  ELSE checkPointerAddressEscapes(
         setEscaped(S, getAsRegion(V),
                    EscapedNullableState(getNullConstraint(escapedValue(S, V)), Valid)),
         Tail(T), getSVal(S, V))

\* checkBind, the store to a non-local pointer-to-pointer: every region of
\* the Non-Local Set gets the record (Unknown, Invalid) when the stored
\* pointer does not point to a non-null pointer
invalidateNonLocals(S, V) ==
  IF getNullConstraint(getSVal(S, V)) # IsNotNull
  THEN [S EXCEPT !.EscapedNullable =
          [r \in Regions |-> IF r \in S.NonLocalNullable
                             THEN EscapedNullableState(Unknown, Invalid)
                             ELSE @[r]]]
  ELSE S

\* checkBind, the nullability part: the kind written to the map, and the
\* report made when a value not known to be non-null goes to a NonNullable
\* region
bindNullability(L, LNullability, RhsNullness) ==
  IF LNullability = NonNullable /\ RhsNullness # IsNotNull THEN NonNullable
  ELSE IF LNullability = NoEntry /\ L \in Regions /\ isRegionNotNullPtrField(L) THEN NonNullable
  ELSE Nullable

bindReport(LNullability, V) ==
  IF LNullability = NonNullable /\ getNullConstraint(V) # IsNotNull
  THEN IF V = "Zero" THEN BugNullptrToNonNullable ELSE BugNullableToNonNullable
  ELSE NoDiag

\* ProgramState::set<NullabilityMap>, projected on the tracked regions
setNullability(S, L, k) ==
  IF L \in Regions THEN [S EXCEPT !.NullabilityMap[L] = k] ELSE S

\* checkBind(L, V): the whole hook.  L is a tracked region or "dest", an
\* untracked global; T is the value type of L; both are pointers.
checkBind(S, L, T, V) ==
  LET IsGlobal == L = "dest" \/ isGlobalRegion(L)
      Rank == IF L \in Regions THEN getLocTypeRank(L) ELSE Len(T) + 1
      S1 == IF IsGlobal /\ Rank > 1 THEN invalidateNonLocals(S, V) ELSE S
      Esc == IF IsGlobal THEN checkPointerAddressEscapes(S1, T, V)
             ELSE [null |-> FALSE, State |-> S1]
      S2 == Esc.State
      LNullability == IF L \in Regions THEN S2.NullabilityMap[L] ELSE NoEntry
      RhsNullness == getNullConstraint(V)
      S3 == setNullability(S2, L, bindNullability(L, LNullability, RhsNullness))
  IN IF Esc.null THEN reportBug(S1, BugVolatilePointerEscape)
     ELSE IF getAsRegion(V) = "none" THEN Transition(S2)
     ELSE IF bindReport(LNullability, V) # NoDiag
     THEN reportBugThenTransition(S2, bindReport(LNullability, V), S3)
     ELSE Transition(S3)

(***************************************************************************)
(* The dereference checks.                                                 *)
(***************************************************************************)
\* checkPointer(V, S): V is the value of the dereferenced expression and
\* NullabilityState the map entry of the region the expression names
checkPointer(V, NullabilityState) ==
  IF V = "Undef" THEN BugUndefinedNullable
  ELSE IF NullabilityState = VolatileNullable THEN BugNullablePointerDereference
  ELSE IF NullabilityState = NonNullable THEN NoDiag
  ELSE IF getNullConstraint(V) = IsNotNull THEN NoDiag
  ELSE IF getNullConstraint(V) = IsNull THEN BugNullalbeNullptrDeference
  ELSE BugNullablePointerDereference

\* getNullabilityState(State, Val): the map entry of the region Val points to
getNullabilityState(S, V) ==
  IF getAsRegion(V) \in Regions THEN S.NullabilityMap[getAsRegion(V)] ELSE NoEntry

\* checkPreStmt(const MemberExpr *): V is the value of the base expression,
\* ReceiverIsNotNull says that the base is a raw pointer to the wrapper
checkMemberExpr(S, V, ReceiverIsNotNull) ==
  IF V = "Undef" THEN BugUndefinedNullable
  ELSE IF ReceiverIsNotNull THEN NoDiag
  ELSE IF V = "Zero" THEN BugNullablePointerDereference
  ELSE IF getNullabilityState(S, V) = NonNullable \/ getNullConstraint(V) = IsNotNull THEN NoDiag
  ELSE BugNullablePointerDereference

\* checkCalleeExpr for a call through a function pointer of value V
checkCalleeExpr(V) ==
  IF getNullConstraint(V) = IsNotNull THEN NoDiag ELSE BugNullablePointerDereference

\* the check the checker makes for one form of dereference of region r
\*   "star"   *r, r->*m      checkPreStmt(UnaryOperator / BinaryOperator)
\*   "arrow"  r->m           checkPreStmt(MemberExpr)
\*   "call"   r()            checkPreCall, checkCalleeExpr
derefCheck(S, r, form) ==
  CASE form = "star" -> checkPointer(S.Store[r], S.NullabilityMap[r])
    [] form = "arrow" -> checkMemberExpr(S, S.Store[r], r = "pn")
    [] OTHER -> checkCalleeExpr(S.Store[r])

(***************************************************************************)
(* checkPreCall and checkPostCall.  A call is a record                     *)
(*   ignore  ignoreEscapeAnalysis(Call): the callee is on the allow-list   *)
(*   ctor    the call constructs a wrapper from the value Arg              *)
(*   T, Arg  the type of the pointer-to-pointer parameter and the value    *)
(*           of its argument; T = <<>> when there is no such parameter     *)
(***************************************************************************)
\* checkPreCall: every record that is not Invalid takes the constraint of
\* the location of its region
refreshEscapedConstraints(S) ==
  [S EXCEPT !.EscapedNullable =
     [r \in Regions |-> IF @[r] # NoRecord /\ @[r].Validity # Invalid
                        THEN EscapedNullableState(getNullConstraintOfLoc(r), @[r].Validity)
                        ELSE @[r]]]

\* ignoreEscapeAnalysis(FD), on the qualified name of the callee; the
\* members of the wrapper are the names that start with gsl::not_null
ignoreEscapeAnalysis(FDName) ==
  \/ FDName = "gsl::make_not_null"
  \/ FDName = "std::forward"
  \/ FDName = "std::move"
  \/ FDName \in {"gsl::not_null::get"}

\* checkPreCall: the walk through the levels of a pointer-to-pointer argument
RECURSIVE recordArgumentEscapes(_, _, _)
recordArgumentEscapes(S, T, Val_) ==
  IF T = <<>> THEN [null |-> FALSE, State |-> S]
  ELSE IF isLValLocVal(Val_) /\ ~isConstQualified(Head(T)) /\ isVolatileQualified(Head(T))
  THEN [null |-> TRUE, State |-> S]
  ELSE recordArgumentEscapes(
         IF isLValLocVal(Val_)
         THEN setEscaped(S, getAsRegion(Val_),
                EscapedNullableState(getNullConstraint(getSVal(S, Val_)),
                  IF isConstQualified(Head(T)) THEN AlwaysValid ELSE Valid))
         ELSE S,
         Tail(T), getSVal(S, Val_))

\* checkPreCall(Call): the whole hook
checkPreCall(S, c) ==
  LET S1 == IF c.ignore THEN S ELSE refreshEscapedConstraints(S)
      Args == IF c.ignore THEN [null |-> FALSE, State |-> S1]
              ELSE recordArgumentEscapes(S1, c.T, c.Arg)
  IN IF c.ctor
     THEN IF getNullConstraint(c.Arg) # IsNotNull
          THEN reportBug(S1, BugNullableToNonNullable)
          ELSE NoTransition(S1)
     ELSE IF Args.null THEN reportBug(Args.State, BugVolatilePointerEscape)
     ELSE Transition(Args.State)

\* a variant of invalidateEscaped that does not look at the constraint
invalidateEscapedAll(S) ==
  [S EXCEPT !.EscapedNullable =
     [r \in Regions |-> IF @[r].Validity = Valid
                        THEN EscapedNullableState(@[r].Constraint, Invalid)
                        ELSE @[r]]]

\* a variant of invalidateEscaped that also makes an Invalid record
\* AlwaysInvalid
escalateEscaped(S) ==
  [S EXCEPT !.EscapedNullable =
     [r \in Regions |-> IF @[r].Validity = Valid /\ @[r].Constraint # Unknown
                        THEN EscapedNullableState(@[r].Constraint, Invalid)
                        ELSE IF @[r].Validity = Invalid
                        THEN EscapedNullableState(@[r].Constraint, AlwaysInvalid)
                        ELSE @[r]]]

\* checkPostCall: a record that is Valid and whose constraint is known
\* becomes Invalid
invalidateEscaped(S) ==
  [S EXCEPT !.EscapedNullable =
     [r \in Regions |-> IF @[r].Validity = Valid /\ @[r].Constraint # Unknown
                        THEN EscapedNullableState(@[r].Constraint, Invalid)
                        ELSE @[r]]]

\* a variant of invalidateNonLocalRegions that leaves the bindings
keepNonLocalRegions(S) == S

\* checkPostCall: invalidateRegions on every region of the Non-Local Set
invalidateNonLocalRegions(S) ==
  [S EXCEPT !.Store = [r \in Regions |-> IF r \in S.NonLocalNullable THEN "SymU" ELSE @[r]]]

\* the parameters of the analysed function whose type is an lvalue
\* reference to a pointer, by the region each refers to
ReferenceParameters == {"ref", "cref", "vr"}

\* a variant of rebindReferenceParameters that binds every tracked region,
\* the locals included, to a fresh symbol
rebindEveryRegion(S) ==
  [S EXCEPT !.Store = [r \in Regions |-> "SymU"]]

\* a variant of rebindReferenceParameters that leaves the bindings
keepReferenceParameters(S) == S

\* checkPostCall: the region every such parameter refers to is bound to a
\* fresh symbol
rebindReferenceParameters(S) ==
  [S EXCEPT !.Store = [r \in Regions |-> IF r \in ReferenceParameters THEN "SymU" ELSE @[r]]]

\* checkPostCall(Call): the whole hook
checkPostCall(S, c) ==
  IF c.ignore THEN Transition(S)
  ELSE Transition(invalidateEscaped(rebindReferenceParameters(invalidateNonLocalRegions(S))))

(***************************************************************************)
(* namespace dno: the alias graph of the nullable objects.                 *)
(***************************************************************************)
createConstraint(S, K, C) == [S EXCEPT !.DNOConstraintMap[K] = C]

\* setAliasInternal(State, LK, RK, Break).  The loop runs over the aliases
\* LK has when the loop starts: the end iterator is taken before the loop,
\* so the keys appended to Pending inside it are not visited.  Each visited
\* key I # LK gets LK added to (removed from, for Break) its own alias set.
setAliasInternal(S, LK, RK, Break) ==
  IF S.DNOAliasMap[LK] = NoAliases /\ Break THEN S
  ELSE LET S1 == IF S.DNOAliasMap[LK] = NoAliases
                 THEN [S EXCEPT !.DNOAliasMap[LK] = {RK}]
                 ELSE S
           Pending == S1.DNOAliasMap[LK]
           Updated(I) ==
             LET Aliases == S1.DNOAliasMap[I]
             IN IF I = LK \/ I \notin Pending THEN Aliases
                ELSE IF Break THEN (IF Aliases = NoAliases THEN Aliases ELSE Aliases \ {LK})
                ELSE IF Aliases = NoAliases THEN {LK}
                ELSE Aliases \cup {LK}
       IN [S1 EXCEPT !.DNOAliasMap = [I \in Keys |-> Updated(I)]]

addAlias(S, LK, RK) ==
  setAliasInternal(setAliasInternal(S, LK, RK, FALSE), RK, LK, FALSE)

breakAlias(S, LK, RK) ==
  setAliasInternal(setAliasInternal(S, LK, RK, TRUE), RK, LK, TRUE)

\* the smallest key of a set: the alias sets are iterated in key order
firstKey(Ks) == CHOOSE k \in Ks : \A j \in Ks : k <= j

\* the loop of breakAliases over the aliases Rest of LK that are left
RECURSIVE breakAliasesLoop(_, _, _)
breakAliasesLoop(S, LK, Rest) ==
  IF Rest = {} THEN S
  ELSE breakAliasesLoop(breakAlias(S, LK, firstKey(Rest)), LK, Rest \ {firstKey(Rest)})

breakAliases(S, LK) ==
  IF S.DNOAliasMap[LK] = NoAliases THEN S
  ELSE breakAliasesLoop(S, LK, S.DNOAliasMap[LK])

\* alias(State, K, AliasK): K takes the constraint of AliasK and is aliased
alias(S, K, AliasK) ==
  IF S.DNOConstraintMap[AliasK] = NoConstraint THEN S
  ELSE addAlias(createConstraint(S, K, S.DNOConstraintMap[AliasK]), K, AliasK)

\* updateConstraint(State, ImmutableSet<NullableObjectStateKey>, C): the loop
\* runs over the set it is given; what it appends to Pending is not visited
updateConstraintOfAliases(S, Aliases, C) ==
  [S EXCEPT !.DNOConstraintMap = [k \in Keys |-> IF k \in Aliases THEN C ELSE @[k]]]

\* alias(State, Sym, K): K joins the objects of Sym, and Sym joins the
\* symbols of each of them (the loop runs over the objects of Sym only)
aliasSymbol(S, Sym, K) ==
  LET UpdatedAliases == S.PtrToDNOAliasMap[Sym] \cup {K}
  IN [S EXCEPT !.PtrToDNOAliasMap[Sym] = UpdatedAliases,
               !.DNOToPtrAliasMap = [I \in Keys |-> IF I \in UpdatedAliases
                                                     THEN @[I] \cup {Sym} ELSE @[I]]]

\* ProgramState::assume(Sym, Assumption) on the constraint held for a symbol
assumeSymbol(c, Assumption) ==
  IF Assumption THEN (IF c = IsNull THEN "infeasible" ELSE IsNotNull)
  ELSE (IF c = IsNotNull THEN "infeasible" ELSE IsNull)

\* State->set<AliasGuard>(true)
setAliasGuard(S) == [S EXCEPT !.AliasGuard = TRUE]

\* a guard that is not released
keepAliasGuard(S) == S

\* State->set<AliasGuard>(false)
releaseAliasGuard(S) == [S EXCEPT !.AliasGuard = FALSE]

\* updateConstraint(State, ImmutableSet<SymbolRef>, C): every symbol is
\* assumed non-null for C = IsNotNull and null otherwise.  A refused
\* assumption leaves a null state, on which the function goes on (null
\* says so; State is then the state before the refused assumption).
updateConstraintOfSymbols(S, SymAliases, C) ==
  LET G == setAliasGuard(S)
      Refused == {y \in SymAliases :
                    assumeSymbol(G.SymbolConstraints[y], C = IsNotNull) = "infeasible"}
  IN [null |-> Refused # {},
      State |-> releaseAliasGuard(
                  [G EXCEPT !.SymbolConstraints =
                     [y \in Symbols |-> IF y \in SymAliases \ Refused
                                         THEN assumeSymbol(@[y], C = IsNotNull)
                                         ELSE @[y]]])]

\* updateConstraint(State, NullableObjectStateKey, C)
updateConstraint(S, K, C) ==
  LET S1 == createConstraint(S, K, C)
      S2 == IF S1.DNOAliasMap[K] = NoAliases THEN S1
            ELSE updateConstraintOfAliases(S1, S1.DNOAliasMap[K], C)
  IN updateConstraintOfSymbols(S2, S2.DNOToPtrAliasMap[K], C)

\* updateConstraint(State, SymbolRef, C): the loop runs over the objects
\* Sym is aliased to (what it appends to Pending is behind the end
\* iterator).  Each of them gets C, and each other symbol aliased to one of
\* them is assumed null or non-null with AliasGuard set, so that the
\* evalAssume of that assume returns at once.  A refused assumption leaves
\* a null state, which State->set<AliasGuard>(false) then uses.
updateConstraintOfSymbol(S, Sym, C) ==
  LET Aliases == S.PtrToDNOAliasMap[Sym]
      SymAliases == {y \in Symbols \ {Sym} : \E I \in Aliases : y \in S.DNOToPtrAliasMap[I]}
      S1 == [S EXCEPT !.DNOConstraintMap = [k \in Keys |-> IF k \in Aliases THEN C ELSE @[k]]]
  IN IF Aliases = {} THEN [null |-> FALSE, State |-> S]
     ELSE IF SymAliases = {} THEN [null |-> FALSE, State |-> S1]
     ELSE updateConstraintOfSymbols(S1, SymAliases, C)

\* the smallest symbol of a set: the PtrToDNOAliasMap is iterated in the
\* order of its keys
firstSymbol(Ys) == CHOOSE y \in Ys : \A z \in Ys : y <= z

\* the loop of evalAssume over the symbols Rest of the PtrToDNOAliasMap
\* that are left (PtrGuards holds the others): a symbol the constraint
\* manager holds null or non-null hands that constraint to its objects
RECURSIVE evalAssumeLoop(_, _)
evalAssumeLoop(res, Rest) ==
  IF Rest = {} \/ res.null THEN res
  ELSE LET PtrSym == firstSymbol(Rest)
           Guarded == [res.State EXCEPT !.PtrGuards = @ \cup {PtrSym}]
           IsNullConstraint == Guarded.SymbolConstraints[PtrSym]
       IN evalAssumeLoop(IF PtrSym \in res.State.PtrGuards THEN res
                         ELSE IF IsNullConstraint \in {IsNull, IsNotNull}
                         THEN updateConstraintOfSymbol(Guarded, PtrSym, IsNullConstraint)
                         ELSE [null |-> FALSE, State |-> Guarded],
                         Rest \ {PtrSym})

\* State->set<PtrGuards>(F.getEmptySet()) at the end of evalAssume
clearPtrGuards(res) == [null |-> res.null, State |-> [res.State EXCEPT !.PtrGuards = {}]]

\* evalAssume without the early return for a set AliasGuard
evalAssumeUnguarded(S, AliasGuard) ==
  clearPtrGuards(evalAssumeLoop([null |-> FALSE, State |-> S],
                                {y \in Symbols : S.PtrToDNOAliasMap[y] # {}}))

\* NullablePointersChecker::evalAssume(State, Cond, Assumption), entered
\* with the flag AliasGuard of the state as given
evalAssume(S, AliasGuard) ==
  IF AliasGuard THEN [null |-> FALSE, State |-> S]
  ELSE clearPtrGuards(evalAssumeLoop([null |-> FALSE, State |-> S],
                                     {y \in Symbols : S.PtrToDNOAliasMap[y] # {}}))

\* ProgramState::assume of the symbol y null (Assumption FALSE) or non-null
\* on a path: the constraint manager refuses (no state) or takes the
\* constraint, and the engine hands the state to evalAssume
assume(S, y, Assumption) ==
  LET c == assumeSymbol(S.SymbolConstraints[y], Assumption)
  IN IF c = "infeasible" THEN [feasible |-> FALSE, null |-> TRUE, State |-> S]
     ELSE [feasible |-> TRUE] @@ evalAssume([S EXCEPT !.SymbolConstraints[y] = c], S.AliasGuard)

(***************************************************************************)
(* ModsVisitor: the kinds of modification of the locations of a loop.      *)
(***************************************************************************)
\* ModKind
ModNone == "ModKind::None"

Unsafe == "Unsafe"

Safe == "Safe"

ConditionalSafe == "ConditionalSafe"

ModKind == {ModNone, Unsafe, Safe, ConditionalSafe}

\* the locations of the LocEnv of a visitor
Locs == {1, 2, 3}

\* no visitor
NoMods == [Modified |-> <<>>, Deps |-> <<>>, NotNull |-> <<>>, Was |-> <<>>, Resolved |-> TRUE]

\* L->Modified = MK
setModified(M, L, MK) == [M EXCEPT !.Modified[L] = MK]

\* the end of resolveConditionalSafety, after the loop over the
\* dependencies: all Safe gives Safe, one Unsafe gives Unsafe, and with
\* unmodified dependencies left the location is Safe when each of them is
\* the lvalue of a variable that holds a non-null value (NotNull)
resolveFromDependencies(M, L) ==
  LET Deps == M.Deps[L]
  IN IF \A d \in Deps : M.Modified[d] = Safe THEN setModified(M, L, Safe)
     ELSE IF \E d \in Deps : M.Modified[d] = Unsafe THEN setModified(M, L, Unsafe)
     ELSE IF \E d \in Deps : M.Modified[d] = ModNone /\ ~M.NotNull[d]
     THEN setModified(M, L, Unsafe)
     ELSE setModified(M, L, Safe)

\* resolveConditionalSafety(L, LocStack); resolveDependencies is its loop
\* over the dependencies Rest of L that are left: a dependency that is on
\* the stack is made Safe, and every ConditionalSafe dependency is
\* resolved with L pushed on the stack
RECURSIVE resolveConditionalSafety(_, _, _)
RECURSIVE resolveDependencies(_, _, _, _)
resolveDependencies(M, L, LocStack, Rest) ==
  IF Rest = {} THEN M
  ELSE LET DepL == firstKey(Rest)
           M1 == IF M.Modified[DepL] # ConditionalSafe THEN M
                 ELSE resolveConditionalSafety(
                        IF DepL \in LocStack THEN setModified(M, DepL, Safe) ELSE M,
                        DepL, LocStack \cup {L})
       IN resolveDependencies(M1, L, LocStack, Rest \ {DepL})

resolveConditionalSafety(M, L, LocStack) ==
  IF M.Modified[L] # ConditionalSafe THEN M
  ELSE LET M1 == [M EXCEPT !.Deps[L] = @ \ {L}]
       IN IF M1.Deps[L] = {} THEN setModified(M1, L, Safe)
          ELSE resolveFromDependencies(
                 resolveDependencies(M1, L, LocStack, M1.Deps[L]), L)

\* the loop of VisitStmt over the LocEnv, in the order Order of the map
RECURSIVE resolveLocEnv(_, _)
resolveLocEnv(M, Order) ==
  IF Order = <<>> THEN M
  ELSE resolveLocEnv(resolveConditionalSafety(M, Head(Order), {}), Tail(Order))

(***************************************************************************)
(* The steps of a path.  A step is the sequence of hooks the engine runs   *)
(* for one expression; a hook that sinks the path ends the sequence.       *)
(***************************************************************************)
NoDeref == [r |-> "-", form |-> "-"]

NoHistory == [proved |-> {"-"}, called |-> {"-"}]

NoLoop == [cond |-> "-", body |-> <<>>, pc |-> "-", blockCount |-> 0, at |-> 0, val |-> "-",
           proved |-> FALSE]

\* the regions of the call machine
CallRegions == {"p", "g", "ref", "cref"}

\* if (r) / if (!r) on a path that goes on
histCheck(r, b) ==
  IF hist = NoHistory THEN hist
  ELSE [proved |-> IF b THEN hist.proved \cup {r} ELSE hist.proved \ {r},
        called |-> hist.called \ {r}]

\* r = v
histBind(r) ==
  IF hist = NoHistory THEN hist
  ELSE [proved |-> hist.proved \ {r}, called |-> hist.called \ {r}]

\* a call outside the allow-list whose checkPostCall has run
histCall ==
  IF hist = NoHistory THEN hist
  ELSE [hist EXCEPT !.called = CallRegions]

Init ==
  /\ State = InitState
  /\ sunk = FALSE
  /\ diag = NoDiag
  /\ checked = NoDeref
  /\ lost = {}
  /\ escaped = "no"
  /\ volatileShared = FALSE
  /\ hist = NoHistory
  /\ MV = NoMods
  /\ loop = NoLoop

\* the engine takes the result of the last hook of a step
Step(Pred, res) ==
  /\ State' = after(Pred, res)
  /\ sunk' = ~live(Pred, res)
  /\ diag' = res.diag

\* r is read and nothing else: checkLocation
Load(r) ==
  /\ ~sunk
  /\ Step(State, checkLocationLoad(State, r))
  /\ checked' = IF live(State, checkLocationLoad(State, r))
                THEN [r |-> r, form |-> "load"] ELSE NoDeref
  /\ UNCHANGED <<lost, escaped, volatileShared, hist, MV, loop>>

\* the load of a wrapper field whose assumption is refused: the hook goes on
\* with a null state, which is undefined behaviour (an assertion of
\* addTransition or a null dereference in add<NonLocalNullable>).  Load is
\* the outcome in which the path goes on from the predecessor; this is the
\* outcome in which the analysis stops.
LoadAbort(r) ==
  /\ ~sunk
  /\ weakenLoad(State, r).Store[r] # "Undef"
  /\ loadInfeasible(r, weakenLoad(State, r).Store[r],
                    getNullConstraint(weakenLoad(State, r).Store[r]))
  /\ sunk' = TRUE
  /\ diag' = NoDiag
  /\ checked' = NoDeref
  /\ UNCHANGED <<State, lost, escaped, volatileShared, hist, MV, loop>>

\* if (r) / if (!r): r is read (checkLocation) and the engine assumes the
\* value read to be non-null (b) or null (~b); a refused assumption is an
\* infeasible branch
Branch(r, b) ==
  LET res == checkLocationLoad(State, r)
      S1 == after(State, res)
      v == IF b THEN assumeNonNull(S1.Store[r]) ELSE assumeNull(S1.Store[r])
  IN /\ ~sunk
     /\ live(State, res) => v # "infeasible"
     /\ IF live(State, res)
        THEN Step(S1, Transition([S1 EXCEPT !.Store[r] = v]))
        ELSE Step(State, res)
     /\ checked' = NoDeref
     /\ lost' = lost \ {r}
     /\ escaped' = IF r = "p" /\ escaped = "called" THEN "stored" ELSE escaped
     /\ hist' = IF live(State, res) THEN histCheck(r, b) ELSE hist
     /\ UNCHANGED <<MV, loop>>
     /\ UNCHANGED volatileShared

\* a dereference of r: r is read (checkLocation), then the check of the
\* form of the dereference is made on the value read
Deref(r, form) ==
  LET res == checkLocationLoad(State, r)
      S1 == after(State, res)
      d == derefCheck(S1, r, form)
  IN /\ ~sunk
     /\ IF live(State, res)
        THEN Step(S1, IF d = NoDiag THEN NoTransition(S1) ELSE reportBug(S1, d))
        ELSE Step(State, res)
     /\ checked' = IF live(State, res) THEN [r |-> r, form |-> form] ELSE NoDeref
     /\ UNCHANGED <<lost, escaped, volatileShared, hist, MV, loop>>

\* the value type of a tracked region
TypeOf(r) == IF r \in {"pp", "w"} THEN <<"none">> ELSE <<>>

\* r = v: checkLocation for the store, checkBind, then the engine binds
Bind(r, v) ==
  LET resL == checkLocationStore(State, r)
      S1 == after(State, resL)
      res == checkBind(S1, r, TypeOf(r), v)
      S2 == after(S1, res)
  IN /\ ~sunk
     /\ State' = IF live(S1, res) THEN [S2 EXCEPT !.Store[r] = v] ELSE S2
     /\ sunk' = ~live(S1, res)
     /\ diag' = res.diag
     /\ checked' = NoDeref
     /\ lost' = lost \ {r}
     /\ escaped' = IF r = "p" /\ escaped = "called" THEN "stored" ELSE escaped
     /\ hist' = histBind(r)
     /\ UNCHANGED <<MV, loop>>
     /\ UNCHANGED volatileShared

\* a pointer chain has a level that is a non-const volatile pointer
hasVolatileLevel(T) == \E i \in 1..Len(T) : T[i] = "volatile"

\* dest = V for an untracked global dest of pointer-to-pointer type T, V
\* the address of a tracked region: checkBind
Escape(T, V) ==
  LET res == checkBind(State, "dest", T, V)
  IN /\ ~sunk
     /\ Step(State, res)
     /\ checked' = NoDeref
     /\ escaped' = IF V = "&p" /\ T = <<"none">> /\ escaped = "no" THEN "stored"
                   ELSE escaped
     /\ volatileShared' = (volatileShared \/ hasVolatileLevel(T))
     /\ UNCHANGED <<lost, hist, MV, loop>>

\* a call that is not inlined: checkPreCall, evalCall (which leaves the
\* tracked state alone and keeps the engine from invalidating anything),
\* checkPostCall
Call(c) ==
  LET res == checkPreCall(State, c)
      S1 == after(State, res)
      resP == checkPostCall(S1, c)
      S2 == after(S1, resP)
  IN /\ ~sunk
     /\ IF live(State, res) THEN Step(S1, resP)
        ELSE Step(State, res)
     /\ checked' = NoDeref
     /\ lost' = IF live(State, res)
                THEN lost \cup {r \in Regions : /\ State.EscapedNullable[r].Validity = Valid
                                                 /\ S2.EscapedNullable[r].Validity = Invalid}
                ELSE lost
     /\ escaped' = IF live(State, res) /\ ~c.ignore /\ escaped = "stored" THEN "called"
                   ELSE escaped
     /\ volatileShared' = (volatileShared \/ (~c.ignore /\ hasVolatileLevel(c.T)))
     /\ hist' = IF live(State, res) /\ ~c.ignore THEN histCall ELSE hist
     /\ UNCHANGED <<MV, loop>>

\* gsl::not_null<T> x(r): r is read, then checkPreCall of the constructor
Construct(r) ==
  LET res == checkLocationLoad(State, r)
      S1 == after(State, res)
      c == [ignore |-> TRUE, ctor |-> TRUE, T |-> <<>>, Arg |-> S1.Store[r]]
  IN /\ ~sunk
     /\ IF live(State, res) THEN Step(S1, checkPreCall(S1, c))
        ELSE Step(State, res)
     /\ checked' = NoDeref
     /\ UNCHANGED <<lost, escaped, volatileShared, hist, MV, loop>>

\* checkBind of a nullable object l from the nullable object r (a copy):
\* a missing constraint of r is created Unknown first
bindObject(S, l, r) ==
  LET S1 == IF S.DNOConstraintMap[r] = NoConstraint THEN createConstraint(S, r, Unknown) ELSE S
  IN alias(breakAliases(S1, l), l, r)

BindObject(l, r) ==
  /\ ~sunk
  /\ l # r
  /\ State' = bindObject(State, l, r)
  /\ checked' = NoDeref
  /\ UNCHANGED <<sunk, diag, lost, escaped, volatileShared, hist, MV, loop>>

\* a call that breaks the aliases of k and keeps its constraint
keepConstraint(S, k) == breakAliases(S, k)

\* checkPostCall of a call of a non-const member function on the nullable
\* object k, or of a non-const overloaded operator with k as first
\* argument: the aliases of k are broken and its constraint is Unknown
invalidateConstraints(S, k) == createConstraint(breakAliases(S, k), k, Unknown)

\* checkBind of a write to a field inside the nullable object k
writeField(S, k) ==
  LET S1 == IF S.DNOConstraintMap[k] # NoConstraint THEN breakAliases(S, k) ELSE S
  IN createConstraint(S1, k, Unknown)

\* what a mutation of k leaves in checked: whether k was proven non-null
\* when the mutation was made
mutated(S, k) ==
  [r |-> k, form |-> IF S.DNOConstraintMap[k] = IsNotNull THEN "mutated after proof" ELSE "mutated"]

\* k.non_const_member_func()
MemberCall(k) ==
  /\ ~sunk
  /\ State' = invalidateConstraints(State, k)
  /\ checked' = mutated(State, k)
  /\ UNCHANGED <<sunk, diag, lost, escaped, volatileShared, hist, MV, loop>>

\* k.member_field = v
WriteField(k) ==
  /\ ~sunk
  /\ State' = writeField(State, k)
  /\ checked' = mutated(State, k)
  /\ UNCHANGED <<sunk, diag, lost, escaped, volatileShared, hist, MV, loop>>

\* checkCalleeExpr of *k, k-> and k->* on the nullable object k
checkCalleeObject(S, k) ==
  IF S.DNOConstraintMap[k] # IsNotNull THEN BugNullablePointerDereference ELSE NoDiag

\* *k: checkPreCall makes the check; after a clean check checkPostCall
\* invalidates k when the operator* called is not const
DerefObject(k, isConst) ==
  LET d == checkCalleeObject(State, k)
  IN /\ ~sunk
     /\ IF d # NoDiag THEN Step(State, reportBug(State, d))
        ELSE Step(State, Transition(IF isConst THEN State ELSE invalidateConstraints(State, k)))
     /\ checked' = [r |-> k, form |-> "*"]
     /\ UNCHANGED <<lost, escaped, volatileShared, hist, MV, loop>>

\* evalCall of l = r for two distinct nullable objects
assignObject(S, l, r) == alias(breakAliases(S, l), l, r)

\* l = r with a declared operator=: evalCall, then checkPostCall of the
\* call of the operator, which is not const
AssignObject(l, r) ==
  /\ ~sunk
  /\ l # r
  /\ State' = invalidateConstraints(assignObject(State, l, r), l)
  /\ checked' = NoDeref
  /\ UNCHANGED <<sunk, diag, lost, escaped, volatileShared, hist, MV, loop>>

\* evalCall of operator= on the nullable object l with nullptr (C = IsNull)
\* or a raw pointer of null constraint C as right-hand side
assignPointer(S, l, C) == createConstraint(breakAliases(S, l), l, C)

\* l = nullptr, l = q: evalCall, then checkPostCall of the call of the
\* operator
AssignPointer(l, C) ==
  /\ ~sunk
  /\ State' = invalidateConstraints(assignPointer(State, l, C), l)
  /\ checked' = NoDeref
  /\ UNCHANGED <<sunk, diag, lost, escaped, volatileShared, hist, MV, loop>>

\* evalCall of the conversion of the nullable object k to bool: the arm
\* of the split in which the conversion yields b
BoolConversion(k, b) ==
  LET res == updateConstraint(State, k, IF b THEN IsNotNull ELSE IsNull)
  IN /\ ~sunk
     /\ ~res.null
     /\ State' = res.State
     /\ checked' = NoDeref
     /\ UNCHANGED <<sunk, diag, lost, escaped, volatileShared, hist, MV, loop>>

\* that arm when updateConstraint is left with a null state: the function
\* uses the null state (State->set<AliasGuard>), which is undefined
\* behaviour.  The analysis stops, or goes on with the state built so far.
BoolConversionNull(k, b, stops) ==
  LET res == updateConstraint(State, k, IF b THEN IsNotNull ELSE IsNull)
  IN /\ ~sunk
     /\ res.null
     /\ State' = IF stops THEN State ELSE res.State
     /\ sunk' = stops
     /\ checked' = NoDeref
     /\ UNCHANGED <<diag, lost, escaped, volatileShared, hist, MV, loop>>

negateNullConstraint(C) ==
  IF C = IsNull THEN IsNotNull ELSE IF C = IsNotNull THEN IsNull ELSE C

\* evalCall of l == r on two distinct nullable objects, on the path where
\* the result is IsTrue.  null says that updateConstraint was left with a
\* null state; feasible says that the path exists.
compareObjects(S, l, r, IsTrue) ==
  LET S1 == IF S.DNOConstraintMap[l] = NoConstraint THEN createConstraint(S, l, Unknown) ELSE S
      S2 == IF S1.DNOConstraintMap[r] = NoConstraint THEN createConstraint(S1, r, Unknown) ELSE S1
      LHState == S2.DNOConstraintMap[l]
      RHState == S2.DNOConstraintMap[r]
      arm(C) == IF IsTrue THEN C ELSE negateNullConstraint(C)
  IN IF LHState = Unknown /\ RHState = Unknown
     THEN [feasible |-> TRUE, null |-> FALSE,
           State |-> IF IsTrue THEN addAlias(S2, l, r) ELSE S2]
     ELSE IF LHState = Unknown
     THEN [feasible |-> TRUE] @@ updateConstraint(S2, l, arm(RHState))
     ELSE IF RHState = Unknown
     THEN [feasible |-> TRUE] @@ updateConstraint(S2, r, arm(LHState))
     ELSE [feasible |-> IsTrue = (LHState = RHState), null |-> FALSE, State |-> S2]

Compare(l, r, IsTrue) ==
  LET res == compareObjects(State, l, r, IsTrue)
  IN /\ ~sunk
     /\ l # r
     /\ res.feasible
     /\ ~res.null
     /\ State' = res.State
     /\ checked' = NoDeref
     /\ UNCHANGED <<sunk, diag, lost, escaped, volatileShared, hist, MV, loop>>

\* the comparison when updateConstraint is left with a null state
CompareNull(l, r, IsTrue, stops) ==
  LET res == compareObjects(State, l, r, IsTrue)
  IN /\ ~sunk
     /\ l # r
     /\ res.feasible
     /\ res.null
     /\ State' = IF stops THEN State ELSE res.State
     /\ sunk' = stops
     /\ checked' = NoDeref
     /\ UNCHANGED <<diag, lost, escaped, volatileShared, hist, MV, loop>>

\* evalCall of the conversion of the nullable object k to a raw pointer:
\* the conjured pointer symbol is aliased to k and takes k's constraint
ConvertToPointer(k) ==
  LET S1 == aliasSymbol(State, k, k)
      TargetConstraint == S1.DNOConstraintMap[k]
      S2 == IF TargetConstraint = NoConstraint THEN createConstraint(S1, k, Unknown)
            ELSE IF TargetConstraint # Unknown
            THEN assume(S1, k, TargetConstraint = IsNotNull).State
            ELSE S1
  IN /\ ~sunk
     /\ State.DNOToPtrAliasMap[k] = {}
     /\ State' = S2
     /\ checked' = NoDeref
     /\ UNCHANGED <<sunk, diag, lost, escaped, volatileShared, hist, MV, loop>>

(***************************************************************************)
(* The escape machine: a function with the local p (and pp = &p) and the   *)
(* global g, which reads, checks, assigns and dereferences them, stores    *)
(* their addresses to globals and passes them to calls.                    *)
(***************************************************************************)
EscapeRegions == {"p", "g"}

\* the values a statement assigns to a pointer: nullptr, another pointer of
\* unknown nullness, the address of a variable
AssignedValues == {"Zero", "SymU", "Addr"}

\* the types of the globals and parameters that addresses are given to
PointerTypes == {<<"none">>, <<"const">>, <<"volatile">>, <<"cv">>}

\* the addresses that can be given to a pointer of type T
AddressesFor(T) == IF Len(T) = 1 THEN {"&p", "&g"} ELSE {"&pp"}

\* any_call() and an allow-listed call
PlainCalls == {[ignore |-> i, ctor |-> FALSE, T |-> <<>>, Arg |-> "Zero"] : i \in BOOLEAN}

\* f(&x) for the parameter types TS
ArgumentCalls(TS) ==
  UNION {{[ignore |-> FALSE, ctor |-> FALSE, T |-> T, Arg |-> V] : V \in AddressesFor(T)}
         : T \in TS}

Calls == PlainCalls \cup ArgumentCalls({<<"none">>, <<"const">>})

Next ==
  \/ \E r \in EscapeRegions : Load(r)
  \/ \E r \in EscapeRegions, b \in BOOLEAN : Branch(r, b)
  \/ \E r \in EscapeRegions : Deref(r, "star")
  \/ \E r \in EscapeRegions, v \in AssignedValues : Bind(r, v)
  \/ \E T \in PointerTypes : \E V \in AddressesFor(T) : Escape(T, V)
  \/ \E c \in Calls : Call(c)

Spec == Init /\ [][Next]_vars

(***************************************************************************)
(* Pointer chains: the local p and pp = &p, whose addresses are given to   *)
(* globals and parameters of two-level pointer types.                      *)
(***************************************************************************)
ChainTypes ==
  {<<"volatile">>, <<"none", "none">>, <<"none", "volatile">>, <<"const", "volatile">>}

ChainCalls == PlainCalls \cup ArgumentCalls(ChainTypes)

NextChain ==
  \/ \E b \in BOOLEAN : Branch("p", b)
  \/ Deref("p", "star")
  \/ \E v \in AssignedValues : Bind("p", v)
  \/ \E T \in ChainTypes : \E V \in AddressesFor(T) : Escape(T, V)
  \/ \E c \in ChainCalls : Call(c)

SpecChain == Init /\ [][NextChain]_vars

(***************************************************************************)
(* The dereference machine: the local p and the pointer pn to a wrapper    *)
(* are assigned, checked, dereferenced in each form and given to the       *)
(* constructor of a wrapper.                                               *)
(***************************************************************************)
DerefRegions == {"p", "pn"}

\* the forms of dereference made of a region
DerefForms(r) == IF r = "pn" THEN {"star", "arrow"} ELSE {"star", "arrow", "call"}

NextDeref ==
  \/ \E r \in DerefRegions : Load(r)
  \/ \E r \in DerefRegions, b \in BOOLEAN : Branch(r, b)
  \/ \E r \in DerefRegions : \E form \in DerefForms(r) : Deref(r, form)
  \/ \E r \in DerefRegions, v \in AssignedValues : Bind(r, v)
  \/ \E r \in DerefRegions : Construct(r)

SpecDeref == Init /\ [][NextDeref]_vars

(***************************************************************************)
(* The wrapper machine: the wrapper fields n and w are bound by            *)
(* constructors and read, next to the local p, its escape and calls.       *)
(***************************************************************************)
WrapperFields == {"n", "w"}

\* the values a constructor binds to a wrapper field
WrapperValues(r) == IF r = "w" THEN {"Zero", "SymU", "&p"} ELSE AssignedValues

NextWrapper ==
  \/ \E r \in WrapperFields : Load(r)
  \/ \E r \in WrapperFields : LoadAbort(r)
  \/ \E b \in BOOLEAN : Branch("p", b)
  \/ \E r \in WrapperFields : \E v \in WrapperValues(r) : Bind(r, v)
  \/ Escape(<<"none">>, "&p")
  \/ \E c \in PlainCalls : Call(c)

SpecWrapper == Init /\ [][NextWrapper]_vars

(***************************************************************************)
(* The call machine: the local p, the global g and the reference           *)
(* parameters ref and cref are checked and dereferenced around calls to    *)
(* named callees; the address of p may be given away.                      *)
(***************************************************************************)
Callees ==
  {"any_call", "std::forward", "std::move", "std::addressof",
   "gsl::make_not_null", "gsl::not_null::get"}

\* the call FDName(V); the argument matters to the make factory only
CallTo(FDName, V) ==
  [ignore |-> ignoreEscapeAnalysis(FDName), ctor |-> FDName = "gsl::make_not_null",
   T |-> <<>>, Arg |-> V]

NamedCalls ==
  {CallTo(n, "Addr") : n \in Callees} \cup {CallTo("gsl::make_not_null", "Zero")}

\* f(&p) for a parameter of type int **
AddressCall == [ignore |-> FALSE, ctor |-> FALSE, T |-> <<"none">>, Arg |-> "&p"]

NextCalls ==
  \/ \E r \in CallRegions, b \in BOOLEAN : Branch(r, b)
  \/ \E r \in CallRegions : Deref(r, "star")
  \/ Escape(<<"none">>, "&p")
  \/ \E c \in NamedCalls \cup {AddressCall} : Call(c)

InitCalls ==
  /\ State = InitState
  /\ sunk = FALSE
  /\ diag = NoDiag
  /\ checked = NoDeref
  /\ lost = {}
  /\ escaped = "no"
  /\ volatileShared = FALSE
  /\ hist = [proved |-> {}, called |-> {}]
  /\ MV = NoMods
  /\ loop = NoLoop

SpecCalls == InitCalls /\ [][NextCalls]_vars

(***************************************************************************)
(* The volatile-reference machine: a pointer is read, checked, assigned    *)
(* and dereferenced through an lvalue reference to a volatile pointer, the *)
(* parameter vr or the local reference lr bound to the local lv.           *)
(***************************************************************************)
VolatileRefTargets == {"vr", "lv"}

NextVolatile ==
  \/ \E r \in VolatileRefTargets : Load(r)
  \/ \E r \in VolatileRefTargets, b \in BOOLEAN : Branch(r, b)
  \/ \E r \in VolatileRefTargets : Deref(r, "star")
  \/ \E r \in VolatileRefTargets, v \in AssignedValues : Bind(r, v)
  \/ \E c \in PlainCalls : Call(c)

SpecVolatile == Init /\ [][NextVolatile]_vars

(***************************************************************************)
(* The alias machine: nullable objects are copied and assigned from each   *)
(* other and from pointers, compared for equality and converted to bool    *)
(* and to raw pointers.                                                    *)
(***************************************************************************)
\* the objects a, b, c of the programs of the alias machine
AliasObjects == {1, 2, 3}

NextAlias ==
  \/ \E l \in AliasObjects, r \in AliasObjects : BindObject(l, r)
  \/ \E l \in AliasObjects, r \in AliasObjects : AssignObject(l, r)
  \/ \E l \in AliasObjects, C \in {IsNull, IsNotNull, Unknown} : AssignPointer(l, C)
  \/ \E k \in AliasObjects, b \in BOOLEAN : BoolConversion(k, b)
  \/ \E k \in AliasObjects, b \in BOOLEAN, stops \in BOOLEAN : BoolConversionNull(k, b, stops)
  \/ \E k \in AliasObjects : ConvertToPointer(k)
  \/ \E l \in AliasObjects, r \in AliasObjects, b \in BOOLEAN : Compare(l, r, b)
  \/ \E l \in AliasObjects, r \in AliasObjects, b \in BOOLEAN, stops \in BOOLEAN : CompareNull(l, r, b, stops)

SpecAlias == Init /\ [][NextAlias]_vars

\* The mutation machine: nullable objects are copied, checked, mutated by
\* member calls, field writes and assignments, and dereferenced.
NextMutate ==
  \/ \E l \in AliasObjects, r \in AliasObjects : BindObject(l, r)
  \/ \E l \in AliasObjects, r \in AliasObjects : AssignObject(l, r)
  \/ \E k \in AliasObjects, b \in BOOLEAN : BoolConversion(k, b)
  \/ \E k \in AliasObjects : MemberCall(k)
  \/ \E k \in AliasObjects : WriteField(k)
  \/ \E k \in AliasObjects, isConst \in BOOLEAN : DerefObject(k, isConst)

SpecMutate == Init /\ [][NextMutate]_vars

\* The programs over four nullable objects that are declared without a
\* known constraint (opt a = get();), copied and assigned to one another
\* and compared for equality.
NextUnion ==
  \/ \E l \in Keys : AssignPointer(l, Unknown)
  \/ \E l \in Keys, r \in Keys : BindObject(l, r)
  \/ \E l \in Keys, r \in Keys : AssignObject(l, r)
  \/ \E l \in Keys, r \in Keys, b \in BOOLEAN : Compare(l, r, b)

SpecUnion == Init /\ [][NextUnion]_vars

(***************************************************************************)
(* The resolution machine: a visitor has walked a function body and holds  *)
(* a dependency graph; VisitStmt resolves its ConditionalSafe locations.   *)
(***************************************************************************)
\* The graphs a walk leaves.  A ConditionalSafe location has dependencies
\* and is not one of them (VisitBinAssign, VisitVarDecl).  The dependency
\* lists are modelled as sets, visited in the order of the locations.
\* NotNull says, for an unmodified location, that it is the lvalue of a
\* variable whose value is constrained non-null in the state of the walk.
\* Was is the ModKind before the resolution.
ModGraphs ==
  {M \in [Modified : [Locs -> ModKind], Deps : [Locs -> SUBSET Locs],
          NotNull : [Locs -> BOOLEAN], Was : [Locs -> ModKind], Resolved : {FALSE}] :
     /\ M.Was = M.Modified
     /\ \A l \in Locs :
          /\ M.Modified[l] = ConditionalSafe => M.Deps[l] # {} /\ l \notin M.Deps[l]
          /\ M.Modified[l] # ConditionalSafe => M.Deps[l] = {}
          /\ M.Modified[l] # ModNone => ~M.NotNull[l]}

\* the orders of the locations in the LocEnv, a std::map keyed by the
\* addresses of the locations
LocOrders == {o \in [1..Cardinality(Locs) -> Locs] : \A l \in Locs : \E i \in DOMAIN o : o[i] = l}

\* VisitStmt of the scope of the visitor: the resolution of the LocEnv
ResolveLocEnv(Order) ==
  /\ ~MV.Resolved
  /\ MV' = [resolveLocEnv(MV, Order) EXCEPT !.Resolved = TRUE]
  /\ UNCHANGED <<State, sunk, diag, checked, lost, escaped, volatileShared, hist, loop>>

NextResolve == \E Order \in LocOrders : ResolveLocEnv(Order)

InitResolve ==
  /\ State = InitState
  /\ sunk = FALSE
  /\ diag = NoDiag
  /\ checked = NoDeref
  /\ lost = {}
  /\ escaped = "no"
  /\ volatileShared = FALSE
  /\ hist = NoHistory
  /\ MV \in ModGraphs
  /\ loop = NoLoop

SpecResolve == InitResolve /\ [][NextResolve]_vars

(***************************************************************************)
(* Properties of the dereference checks and of the wrapper.                *)
(***************************************************************************)
\* C1: a dereference check of a pointer (*v, v->m, a call through v) emits
\* no diagnostic if and only if the null constraint of v is IsNotNull or the
\* nullability-map entry of the region of v is NonNullable
C1_CleanIffNotNullOrNonNullable ==
  checked.form \in {"star", "arrow", "call"}
    => (diag = NoDiag <=>
          \/ getNullConstraint(State.Store[checked.r]) = IsNotNull
          \/ State.NullabilityMap[checked.r] = NonNullable)

\* C5: a step that emits a diagnostic sinks the path
C5_DiagnosticSinksPath == diag # NoDiag => sunk

\* C6: the value loaded from a wrapper field has null constraint IsNotNull
C6_NonNullableLoadIsNotNull ==
  (checked.r \in WrapperFields /\ ~sunk)
    => getNullConstraint(State.Store[checked.r]) = IsNotNull

(***************************************************************************)
(* Properties of the alias graph.                                          *)
(***************************************************************************)
\* an alias edge between two keys, in either direction
Linked(a, b) ==
  \/ (State.DNOAliasMap[a] # NoAliases /\ b \in State.DNOAliasMap[a])
  \/ (State.DNOAliasMap[b] # NoAliases /\ a \in State.DNOAliasMap[b])

\* the keys connected to those of Ks by at most n alias edges
RECURSIVE Reach(_, _)
Reach(Ks, n) ==
  IF n = 0 THEN Ks
  ELSE Reach(Ks \cup {k \in Keys : \E j \in Ks : Linked(j, k)}, n - 1)

\* C4: two keys of the same alias equivalence class (connected through
\* alias edges) have the same recorded constraint, in every reachable state
C4_AliasedKeysShareConstraint ==
  \A a \in Keys : \A b \in Reach({a}, NumKeys) :
    State.DNOConstraintMap[a] = State.DNOConstraintMap[b]

(***************************************************************************)
(* Properties of the escape tracker.                                       *)
(***************************************************************************)
\* the state in which checkPostCall of the call c starts
beforePostCall(c) == after(State, checkPreCall(State, c))

\* the step is a call outside the allow-list whose checkPostCall has run
InvalidatingCall(c) ==
  Call(c) /\ ~c.ignore /\ live(State, checkPreCall(State, c))

\* C2 as stated: a call outside the allow-list leaves every escape record
\* that was Valid when checkPostCall started with validity Invalid, whatever
\* constraint the record holds
C2_EveryValidRecordInvalidated ==
  [][\A c \in Calls : InvalidatingCall(c) =>
       \A r \in Regions :
         beforePostCall(c).EscapedNullable[r].Validity = Valid
           => State'.EscapedNullable[r].Validity = Invalid]_vars

\* C2 amended: a call outside the allow-list makes Invalid every escape
\* record that was Valid with a known constraint (IsNull, IsNotNull) when
\* checkPostCall started and keeps the constraint; a Valid record whose
\* constraint is Unknown is left as it is
C2_KnownValidRecordInvalidated ==
  [][\A c \in Calls : InvalidatingCall(c) =>
       \A r \in Regions :
         LET E == beforePostCall(c).EscapedNullable[r]
         IN E.Validity = Valid
              => State'.EscapedNullable[r] =
                   IF E.Constraint # Unknown
                   THEN EscapedNullableState(E.Constraint, Invalid)
                   ELSE E]_vars

\* a call has invalidated the record of p, which held a known constraint,
\* and has left the record of g, Valid with an Unknown constraint, alone
C2_Witness ==
  /\ State.EscapedNullable["p"] = EscapedNullableState(IsNotNull, Invalid)
  /\ State.EscapedNullable["g"] = EscapedNullableState(Unknown, Valid)

\* C3: once the address of the local p has been stored to a plain
\* (non-const, non-volatile) non-local pointer-to-pointer and a call
\* outside the allow-list has followed, a dereference of p with no null
\* check of p since that call is reported.  The claim names the report,
\* NullablePointerDereference; stated here is the weaker property that the
\* dereference is not clean.
C3_DerefAfterEscapeAndCallReports ==
  (checked = [r |-> "p", form |-> "star"] /\ escaped = "called")
    => diag # NoDiag

\* C7: a dereference of a region whose escape record a call has made
\* Invalid, with no null check of the region since, is not clean
C7_LostProofStaysLost ==
  (checked.form = "star" /\ checked.r \in lost) => diag # NoDiag

\* f(V) for a parameter of type T
ArgumentCall(T, V) == [ignore |-> FALSE, ctor |-> FALSE, T |-> T, Arg |-> V]

\* C8: a store to a global or a call argument that shares an address
\* through a chain with a non-const volatile level reports
\* VolatilePointerEscape and sinks the path
C8_VolatileLevelReportsAndSinks ==
  volatileShared => (diag = BugVolatilePointerEscape /\ sunk)

\* C9: after a VolatilePointerEscape report for a region, the escape record
\* of the region has validity AlwaysInvalid
C9_VolatileEscapePoisonsRecord ==
  [][\A T \in PointerTypes : \A V \in AddressesFor(T) :
       ((Escape(T, V) \/ Call(ArgumentCall(T, V)))
          /\ diag' = BugVolatilePointerEscape)
         => State'.EscapedNullable[getAsRegion(V)].Validity = AlwaysInvalid]_vars

\* the step is an escape of the address of r: a store of it to a global, or
\* a call that takes it as an argument
EscapeOf(r) ==
  \/ \E T \in PointerTypes : \E V \in AddressesFor(T) :
       getAsRegion(V) = r /\ Escape(T, V)
  \/ \E c \in Calls : getAsRegion(c.Arg) = r /\ Call(c)

\* C10: a step that is not an escape of r keeps an AlwaysValid validity of
\* the escape record of r
C10_AlwaysValidAbsorbing ==
  [][\A r \in EscapeRegions :
       (State.EscapedNullable[r].Validity = AlwaysValid /\ ~EscapeOf(r))
         => State'.EscapedNullable[r].Validity = AlwaysValid]_vars

\* C11: a region reached through a reference to a volatile pointer that is
\* VolatileNullable in the nullability map is VolatileNullable after every
\* step, a bind of a value to it included
C11_VolatileNullableIsKept ==
  [][\A r \in VolatileRefTargets :
       State.NullabilityMap[r] = VolatileNullable
         => State'.NullabilityMap[r] = VolatileNullable]_vars

\* C12: every dereference through an lvalue reference to a volatile pointer
\* is reported.  The claim names the report, NullablePointerDereference;
\* stated here is the weaker property that the dereference is not clean.
C12_VolatileRefDerefReports ==
  (checked.form = "star" /\ checked.r \in VolatileRefTargets)
    => diag # NoDiag

\* a and b are joined by an alias edge of the state S, in either direction
LinkedIn(S, a, b) ==
  \/ (S.DNOAliasMap[a] # NoAliases /\ b \in S.DNOAliasMap[a])
  \/ (S.DNOAliasMap[b] # NoAliases /\ a \in S.DNOAliasMap[b])

\* the keys connected in S to those of Ks by at most n alias edges
RECURSIVE ReachIn(_, _, _)
ReachIn(S, Ks, n) ==
  IF n = 0 THEN Ks
  ELSE ReachIn(S, Ks \cup {k \in Keys : \E j \in Ks : LinkedIn(S, j, k)}, n - 1)

\* the alias class of the key k in the state S
ClassIn(S, k) == ReachIn(S, {k}, NumKeys)

\* C13: addAlias applied to any reachable state and two distinct keys of
\* unknown constraint (the call of the equality comparison) leaves the two
\* keys in one alias class, together with every key that was in the class
\* of either of them before
C13_AddAliasUnitesClasses ==
  \A l \in Keys, r \in Keys :
    (l # r /\ State.DNOConstraintMap[l] = Unknown /\ State.DNOConstraintMap[r] = Unknown) =>
      LET S == addAlias(State, l, r)
      IN /\ r \in ClassIn(S, l)
         /\ ClassIn(State, l) \cup ClassIn(State, r) \subseteq ClassIn(S, l)

\* C14: in breakAliases(addAlias(s, a, b), a), for any reachable state s
\* and two distinct keys with recorded constraints, no alias edge joins a
\* and b in either direction, both keep the constraint they had, and an
\* update of the constraint of one of them leaves that of the other
C14_BreakAfterAddSeparates ==
  \A a \in AliasObjects, b \in AliasObjects :
    (a # b /\ State.DNOConstraintMap[a] # NoConstraint
           /\ State.DNOConstraintMap[b] # NoConstraint) =>
      LET S1 == addAlias(State, a, b)
          S2 == breakAliases(S1, a)
      IN /\ ~LinkedIn(S2, a, b)
         /\ S2.DNOConstraintMap[a] = S1.DNOConstraintMap[a]
         /\ S2.DNOConstraintMap[b] = S1.DNOConstraintMap[b]
         /\ \A C \in {IsNull, IsNotNull} :
              /\ updateConstraint(S2, a, C).State.DNOConstraintMap[b] = S2.DNOConstraintMap[b]
              /\ updateConstraint(S2, b, C).State.DNOConstraintMap[a] = S2.DNOConstraintMap[a]

\* C16: updateConstraint(s, K, C) leaves C as the constraint of K and of
\* every key that alias edges lead to from K in one or more steps
RECURSIVE ReachFrom(_, _, _)
ReachFrom(S, Ks, n) ==
  IF n = 0 THEN Ks
  ELSE ReachFrom(S, Ks \cup {k \in Keys : \E j \in Ks :
                       S.DNOAliasMap[j] # NoAliases /\ k \in S.DNOAliasMap[j]}, n - 1)

C16_UpdateReachesTransitiveAliases ==
  \A K \in AliasObjects, C \in {IsNull, IsNotNull} :
    LET res == updateConstraint(State, K, C)
    IN ~res.null =>
         \A k \in ReachFrom(State, {K}, NumKeys) : res.State.DNOConstraintMap[k] = C

\* updateConstraint applied to the result res of an earlier updateConstraint
\* (a null state stays null)
updateAgain(res, K, C) ==
  IF res.null THEN res ELSE updateConstraint(res.State, K, C)

\* C15: for any reachable state, key K and constraints C1, C2, updating K
\* to C1 and then to C2 gives what updating K to C2 gives
C15_SecondUpdateWins ==
  \A K \in AliasObjects, C1 \in {IsNull, IsNotNull, Unknown}, C2 \in {IsNull, IsNotNull, Unknown} :
    LET direct == updateConstraint(State, K, C2)
    IN ~direct.null =>
         updateAgain(updateConstraint(State, K, C1), K, C2) = direct

neverEscaped == escaped = "no" /\ State.EscapedNullable["p"] = NoRecord

\* C19: a dereference of the local, non-reference pointer p, whose address
\* has never escaped and which was checked non-null with no assignment
\* since, emits no diagnostic, whatever calls were made since the check;
\* p is NotNull as long as that holds
C19_LocalProofSurvivesCall ==
  ("p" \in hist.proved /\ neverEscaped) =>
    /\ getNullConstraint(State.Store["p"]) = IsNotNull
    /\ (checked = [r |-> "p", form |-> "star"] => diag = NoDiag)

\* p was checked non-null, a call outside the allow-list followed with no
\* check since, and the dereference of p after it is clean
C19_Witness ==
  /\ "p" \in hist.proved \cap hist.called
  /\ neverEscaped
  /\ checked = [r |-> "p", form |-> "star"]
  /\ diag = NoDiag

\* the helpers that the specification lists as allow-listed
ListedHelpers == {"std::forward", "std::move", "std::addressof", "gsl::make_not_null"}

\* C20: a call to std::forward, std::move, std::addressof or the make
\* factory of the wrapper leaves the validity of every escape record and
\* the bindings of the regions of the Non-Local Set and of the reference
\* parameters as they were before the call
C20_ListedHelpersInvalidateNothing ==
  [][\A n \in ListedHelpers, V \in {"Addr", "Zero"} : Call(CallTo(n, V)) =>
       /\ \A r \in Regions :
            State'.EscapedNullable[r].Validity = State.EscapedNullable[r].Validity
       /\ \A r \in State.NonLocalNullable \cup {"ref", "cref"} :
            State'.Store[r] = State.Store[r]]_vars

\* both arms of the boolean check of a leave a and b with the constraint of
\* the arm
bothArms(S, a, b) ==
  \A C \in {IsNotNull, IsNull} :
    LET res == updateConstraint(S, a, C)
    IN ~res.null =>
         /\ res.State.DNOConstraintMap[a] = C
         /\ res.State.DNOConstraintMap[b] = C

\* C21: in any reachable state, after b is copied (checkBind) from a, or
\* assigned (operator=: evalCall, then checkPostCall) from an a that has a
\* recorded constraint, the true
\* arm of a boolean check of a leaves a and b IsNotNull and the false arm
\* leaves both IsNull
C21_CheckReachesLocalAlias ==
  \A a \in AliasObjects, b \in AliasObjects :
    a # b => /\ bothArms(bindObject(State, b, a), a, b)
             /\ State.DNOConstraintMap[a] # NoConstraint
                  => bothArms(invalidateConstraints(assignObject(State, b, a), b), a, b)

\* C22: in the state a non-const member call on a nullable object, or a
\* write to a field inside it, leaves, the constraint of the object is
\* Unknown and the check of a dereference of the object reports
\* NullablePointerDereference, also when the object was proven non-null
\* before the mutation
C22_MutationLosesProof ==
  checked.form \in {"mutated", "mutated after proof"} =>
    /\ State.DNOConstraintMap[checked.r] = Unknown
    /\ checkCalleeObject(State, checked.r) = BugNullablePointerDereference

\* an object proven non-null has been mutated and is Unknown
C22_Witness ==
  /\ checked.form = "mutated after proof"
  /\ State.DNOConstraintMap[checked.r] = Unknown

\* C23: when the ConditionalSafe locations of a visitor have been resolved,
\* every location that was ConditionalSafe and has a dependency whose kind
\* is then Unsafe is itself Unsafe
C23_UnsafeDependencyMakesUnsafe ==
  (MV # NoMods /\ MV.Resolved) =>
    \A l \in Locs :
      (MV.Was[l] = ConditionalSafe /\ \E d \in MV.Deps[l] : MV.Modified[d] = Unsafe)
        => MV.Modified[l] = Unsafe

(***************************************************************************)
(* The loop machine.  The function under analysis is one of                *)
(*   void f(int *p, double x) { if (p) / if (!p) ... while (COND) { BODY } }*)
(* with  void any_call(int *&)  and  void use(double).  The condition of   *)
(* the loop is guard() && COND, and the call of the guard is evaluated by  *)
(* evalCall.  A path is at one of the positions                            *)
(*   before  the statements before the loop                                *)
(*   cond    the guard holds, the condition is to be evaluated             *)
(*   hook    the condition has its value, checkLoopCondition is to run     *)
(*   body    in the body, before its statement  at                         *)
(*   guard   at the end of the body                                        *)
(*   after   the loop has been left                                        *)
(***************************************************************************)
\* the conditions: the int read through p, p itself, a comparison of
\* floating-point values (an UnknownVal), a constant
LoopConds == {"*p", "p", "x < 1.5", "true"}

Statements == {"++p", "any_call(p)", "use(x)", "break"}

\* the most statements of a body
MaxBody == 2

LoopBodies == UNION {[1..n -> Statements] : n \in 0..MaxBody}

\* the most visits of a block on a path (the analyzer's max block count)
MaxBlockCount == 4

\* the locations of the LocEnv of the visitor: the location of the
\* variable p (makeVarLoc), the location its value points to (bindLoc), the
\* location of the variable x
locP == 1

locPointee == 2

locX == 3

\* The state of a walk of the visitor: the ModKind of the locations; the
\* locations the LocEnv has an entry for (Bound); the values the LocEnv
\* holds for a location, the locations among them (Vals) and whether a
\* non-loc value is among them (NonLoc); and whether a recursion of the
\* walk has not returned (Diverged).  The statements before the loop read
\* p, and the condition is visited before the body.
InitWalk(cond) ==
  [Modified |-> [l \in Locs |-> ModNone],
   Bound |-> IF cond = "x < 1.5" THEN Locs ELSE {locP, locPointee},
   Vals |-> [l \in Locs |-> IF l = locP THEN {locPointee} ELSE {}],
   NonLoc |-> [l \in Locs |-> l # locP],
   Diverged |-> FALSE]

\* modify(L, MK) while Modifying
modify(W, L, MK) == [W EXCEPT !.Modified[L] = MK]

\* a locsWithVal that returns the locations that hold no location
locsWithNonLoc(W) == {l \in W.Bound : W.NonLoc[l]}

\* locsWithVal(V): llvm::find returns an iterator, which is never null, so
\* that every location of the LocEnv is returned
locsWithVal(W) == W.Bound

\* for (auto &L : locsWithVal(V)) modify(L, MK)
modifyLocsWithVal(W, MK) ==
  [W EXCEPT !.Modified = [l \in Locs |-> IF l \in locsWithVal(W) THEN MK ELSE @[l]]]

\* modifyReachable(LocRef L, MK): L, then every value the LocEnv holds for
\* L.  The recursion keeps no record of the locations it has visited: on a
\* cycle of the LocEnv it does not return, which Depth finds out.
RECURSIVE modifyReachable(_, _, _, _)
RECURSIVE modifyReachableVals(_, _, _, _)
modifyReachableVals(W, Ls, MK, Depth) ==
  IF Ls = {} \/ W.Diverged THEN W
  ELSE LET L == CHOOSE l \in Ls : \A m \in Ls : l <= m
       IN modifyReachableVals(modifyReachable(W, L, MK, Depth), Ls \ {L}, MK, Depth)

modifyReachable(W, L, MK, Depth) ==
  IF Depth > Cardinality(Locs) THEN [W EXCEPT !.Diverged = TRUE]
  ELSE LET W1 == modifyReachableVals(modify(W, L, MK), W.Vals[L], MK, Depth + 1)
       IN IF W1.Diverged \/ ~W.NonLoc[L] THEN W1 ELSE modifyLocsWithVal(W1, MK)

\* VisitUnaryModify of ++p: the location of p is modified Safe and takes
\* the values of the operand, the lvalue p, which is the location itself
VisitUnaryModify(W) ==
  [modify(W, locP, Safe) EXCEPT !.Vals[locP] = {locP}, !.NonLoc[locP] = FALSE]

\* VisitCallExpr: the argument is visited, then what can be reached from
\* its values is modified Unsafe unless the parameter is a pointer or
\* reference to const.  any_call(p) has the lvalue p for its argument,
\* use(x) the value read from x.
VisitCallExpr(W, stmt) ==
  IF stmt = "any_call(p)" THEN modifyReachable(W, locP, Unsafe, 1)
  ELSE LET W1 == [W EXCEPT !.Bound = @ \cup {locX}]
           W2 == modifyReachableVals(W1, W1.Vals[locX], Unsafe, 1)
       IN IF W2.Diverged \/ ~W2.NonLoc[locX] THEN W2 ELSE modifyLocsWithVal(W2, Unsafe)

\* the loops a body may hold: they modify nothing
InnerLoops == {"while (true) { break; }", "while (c) { }"}

\* the visit of the statements of the body, in their order
RECURSIVE VisitBody(_, _)
VisitBody(W, Body) ==
  IF Body = <<>> \/ W.Diverged THEN W
  ELSE LET stmt == Head(Body)
           W1 == IF stmt = "++p" THEN VisitUnaryModify(W)
                 ELSE IF stmt = "break" \/ stmt \in InnerLoops THEN W
                 ELSE VisitCallExpr(W, stmt)
       IN VisitBody(W1, Tail(Body))

\* WeakenLocExprs: the weakening of an expression whose only value is a
\* location of kind MK
weakening(MK) == IF MK = Safe THEN Invariant ELSE Variant

\* the expressions of a condition in the order of LoopGuardVisitor, each
\* with the location its ExprEnv entry holds.  "*p" is the dereference (or
\* the conversion to bool) of the value read from p, "p" and "x" are the
\* lvalues.
condExprs(cond) ==
  IF cond \in {"*p", "p"} THEN <<[e |-> "*p", l |-> locPointee], [e |-> "p", l |-> locP]>>
  ELSE IF cond = "x < 1.5" THEN <<[e |-> "x", l |-> locX]>>
  ELSE <<>>

\* LoopGuardVisitor: ConditionModified holds the first modified expression
\* of the condition, and GuardNeeded is true when there is none
ConditionModified(W, cond) ==
  LET es == condExprs(cond)
      is == {i \in DOMAIN es : W.Modified[es[i].l] # ModNone}
  IN IF is = {} THEN {} ELSE {es[CHOOSE i \in is : \A j \in is : i <= j]}

\* the WeakenMap and WeakenSynonyms are made empty
clearWeaken(S) ==
  [S EXCEPT !.WeakenMap = [r \in Regions |-> NoWeaken], !.WeakenExprs = {}]

\* a variant of clearWeaken that leaves the maps
keepWeaken(S) == S

\* State->set<WeakenMap>(M, W) for the expressions Es: the reads of p are
\* kept by region, the other expressions by name
setWeaken(S, W, Es) ==
  [S EXCEPT !.WeakenMap["p"] = IF \E m \in Es : m.e = "p"
                               THEN weakening(W.Modified[locP]) ELSE @,
            !.WeakenExprs = @ \cup {m.e : m \in {n \in Es : n.e # "p"}}]

\* the modified expressions of the function (ModifiedLocExprs)
ModifiedLocExprs(W) ==
  {m \in {[e |-> "*p", l |-> locPointee], [e |-> "p", l |-> locP], [e |-> "x", l |-> locX]} :
     m.l \in W.Bound /\ W.Modified[m.l] # ModNone}

\* evalCall of the guard of the loop: the state it binds the guard in, and
\* the value of the guard
evalCallGuard(S, W, cond, blockCount) ==
  IF blockCount = 1
  THEN [State |-> setWeaken(S, W, ModifiedLocExprs(W)), guard |-> TRUE]
  ELSE IF ConditionModified(W, cond) = {}
  THEN [State |-> clearWeaken(S), guard |-> FALSE]
  ELSE [State |-> setWeaken(clearWeaken(S), W, ConditionModified(W, cond)), guard |-> TRUE]

\* the value of the condition, as the engine has evaluated it:
\*   "sym"       a symbolic value both assumptions are feasible for
\*   "symTrue"   a symbolic value constrained to be non-zero
\*   "symFalse"  a symbolic value constrained to be zero
\*   "nonzero", "zero"  a constant
\*   "unknown"   UnknownVal
CondValues == {"sym", "symTrue", "symFalse", "nonzero", "zero", "unknown"}

condValue(S, cond) ==
  CASE cond = "*p" -> "sym"
    [] cond = "p" -> IF isLValLocVal(S.Store["p"]) THEN "nonzero"
                     ELSE IF getNullConstraint(S.Store["p"]) = IsNotNull THEN "symTrue"
                     ELSE IF getNullConstraint(S.Store["p"]) = IsNull THEN "symFalse"
                     ELSE "sym"
    [] cond = "x < 1.5" -> "unknown"
    [] cond = "c" -> "sym"
    [] OTHER -> "nonzero"

\* ProgramState::assume(Condition): the state of the arm b, when feasible
feasible(Cond, b) ==
  \/ Cond = "sym"
  \/ Cond \in {"symTrue", "nonzero"} /\ b
  \/ Cond \in {"symFalse", "zero"} /\ ~b

assumeCond(S, cond, b) ==
  IF cond = "p" /\ ~isLValLocVal(S.Store["p"])
  THEN [S EXCEPT !.Store["p"] = IF b THEN assumeNonNull(@) ELSE assumeNull(@)]
  ELSE S

\* a variant of checkLoopCondition that adds, for a value that is not a
\* constant, the state of each feasible arm at every evaluation
forkLoopCondition(S, cond, blockCount, Cond) ==
  IF Cond \in {"unknown", "nonzero"} THEN [nodes |-> {}, sink |-> FALSE]
  ELSE [nodes |-> {[State |-> IF b THEN assumeCond(S, cond, b)
                              ELSE clearWeaken(assumeCond(S, cond, b)),
                    arm |-> b] : b \in {c \in BOOLEAN : feasible(Cond, c)}},
        sink |-> FALSE]

\* checkLoopCondition: the transitions the hook adds, each with the arm of
\* the condition its state has been assumed for, and whether it has called
\* addSink
checkLoopCondition(S, cond, blockCount, Cond) ==
  LET StTrue == {[State |-> assumeCond(S, cond, TRUE), arm |-> TRUE] : b \in {c \in {TRUE} : feasible(Cond, c)}}
      StFalse == {[State |-> clearWeaken(assumeCond(S, cond, FALSE)), arm |-> FALSE] :
                    b \in {c \in {FALSE} : feasible(Cond, c)}}
      Zero == {[State |-> clearWeaken(S), arm |-> FALSE]}
      None == [nodes |-> {}, sink |-> FALSE]
  IN IF Cond = "unknown" THEN None
     ELSE IF blockCount = 1
     THEN IF Cond \notin {"nonzero", "zero"} THEN [nodes |-> StTrue \cup StFalse, sink |-> FALSE]
          ELSE IF Cond = "zero" THEN [nodes |-> Zero, sink |-> FALSE]
          ELSE None
     ELSE IF blockCount = 2
     THEN IF Cond \notin {"nonzero", "zero"} THEN [nodes |-> StFalse, sink |-> FALSE]
          ELSE IF Cond # "zero" THEN [nodes |-> {}, sink |-> TRUE]
          ELSE [nodes |-> Zero, sink |-> FALSE]
     ELSE None

\* The successors of the condition.  The engine takes the nodes the hook
\* has added; when the hook has added none and has not sunk the path, it
\* goes on from the predecessor and takes each feasible arm, both for an
\* unknown condition.
loopSuccessors(S, cond, blockCount, Cond) ==
  LET res == checkLoopCondition(S, cond, blockCount, Cond)
  IN IF res.sink THEN {}
     ELSE IF res.nodes # {} THEN res.nodes
     ELSE {[State |-> assumeCond(S, cond, b), arm |-> b] :
             b \in {c \in BOOLEAN : Cond = "unknown" \/ feasible(Cond, c)}}

\* what a sequence of hooks leaves
outcome(Pred, res) ==
  [State |-> after(Pred, res), sunk |-> ~live(Pred, res), diag |-> res.diag]

\* the value of p + 1
increment(v) == IF v = "Zero" THEN "Addr" ELSE v

\* ++p: p is read (checkLocation), then stored to (checkLocation,
\* checkBind), and the engine binds the new value
runIncrement(S) ==
  LET o1 == outcome(S, checkLocationLoad(S, "p"))
      S1 == o1.State
      v == increment(S1.Store["p"])
      S2 == after(S1, checkLocationStore(S1, "p"))
      o2 == outcome(S2, checkBind(S2, "p", TypeOf("p"), v))
  IN IF o1.sunk THEN o1
     ELSE IF o2.sunk THEN o2
     ELSE [o2 EXCEPT !.State.Store["p"] = v]

\* a call that is not inlined: checkPreCall, evalCall, checkPostCall
runCall(S, c) ==
  LET o1 == outcome(S, checkPreCall(S, c))
  IN IF o1.sunk THEN o1 ELSE outcome(o1.State, checkPostCall(o1.State, c))

\* the calls of the bodies: any_call(p) binds p to an int *& parameter,
\* use(x) has no pointer argument
callOf(stmt) ==
  IF stmt = "any_call(p)" THEN ArgumentCall(<<"none">>, "&p")
  ELSE [ignore |-> FALSE, ctor |-> FALSE, T |-> <<>>, Arg |-> "Zero"]

\* checkPostStmt(BreakStmt)
checkPostStmtBreak(S) == Transition(clearWeaken(S))

\* the evaluation of the condition: the reads of its lvalues
\* (checkLocation) and the check of a dereference
runCondition(S, cond) ==
  LET o1 == outcome(S, checkLocationLoad(S, "p"))
      S1 == o1.State
      d == derefCheck(S1, "p", "star")
      readPointee(T) == [T EXCEPT !.WeakenExprs = @ \ {"*p"}]
  IN CASE cond = "*p" ->
            IF o1.sunk THEN o1
            ELSE IF d # NoDiag THEN outcome(S1, reportBug(S1, d))
            ELSE [o1 EXCEPT !.State = readPointee(S1)]
       [] cond = "p" -> o1
       [] cond = "x < 1.5" ->
            [State |-> [S EXCEPT !.WeakenExprs = @ \ {"x"}], sunk |-> FALSE, diag |-> NoDiag]
       [] OTHER -> [State |-> S, sunk |-> FALSE, diag |-> NoDiag]

\* condition and body of a loop inside the body
innerCond(stmt) == IF stmt = "while (c) { }" THEN "c" ELSE "true"

innerBody(stmt) == IF stmt = "while (c) { }" THEN <<>> ELSE <<"break">>

\* a loop inside the body, on the path that leaves it at once: evalCall of
\* its guard, the evaluation of its condition and checkLoopCondition, and
\* then the arm that leaves the loop or, when the constant condition has
\* none, the break of its body.  blockCount is the count of the block of
\* the inner guard, which is visited once in each iteration of the outer
\* loop.
innerBreak(S) == outcome(S, checkPostStmtBreak(S))

innerLeave(S, succ) ==
  IF {n \in succ : ~n.arm} # {}
    THEN [State |-> (CHOOSE n \in succ : ~n.arm).State, sunk |-> FALSE, diag |-> NoDiag]
    ELSE IF succ = {} THEN [State |-> S, sunk |-> TRUE, diag |-> NoDiag]
    ELSE innerBreak((CHOOSE n \in succ : n.arm).State)

innerAfterCond(S, cond, blockCount) ==
  innerLeave(S, loopSuccessors(S, cond, blockCount, condValue(S, cond)))

innerAfterGuard(G, cond, blockCount) ==
  IF ~G.guard THEN [State |-> G.State, sunk |-> FALSE, diag |-> NoDiag]
  ELSE innerAfterCond(runCondition(G.State, cond).State, cond, blockCount)

runInnerLoop(S, stmt, blockCount) ==
  innerAfterGuard(evalCallGuard(S, VisitBody(InitWalk(innerCond(stmt)), innerBody(stmt)),
                                innerCond(stmt), blockCount),
                  innerCond(stmt), blockCount)

\* if (p) / if (!p) before the loop
LoopBefore(b) ==
  /\ loop.pc = "before"
  /\ Branch("p", b)

\* evalCall of the guard: the visitor walks the function, then the guard is
\* bound.  A walk that does not return ends the analysis.
LoopGuard ==
  LET W == VisitBody(InitWalk(loop.cond), loop.body)
      res == evalCallGuard(State, W, loop.cond, loop.blockCount + 1)
      proved == IF loop.pc = "before" THEN getNullConstraint(State.Store["p"]) = IsNotNull
                ELSE loop.proved
  IN /\ ~sunk
     /\ loop.pc \in {"before", "guard"}
     /\ loop.blockCount < MaxBlockCount
     /\ MV' = W
     /\ IF W.Diverged
        THEN /\ sunk' = TRUE
             /\ loop' = [loop EXCEPT !.pc = "diverged", !.proved = proved]
             /\ UNCHANGED State
        ELSE /\ sunk' = FALSE
             /\ State' = res.State
             /\ loop' = [loop EXCEPT !.pc = IF res.guard THEN "cond" ELSE "after",
                                     !.blockCount = @ + 1,
                                     !.proved = proved]
     /\ diag' = NoDiag
     /\ checked' = NoDeref
     /\ UNCHANGED <<lost, escaped, volatileShared, hist>>

\* the condition is evaluated
LoopEval ==
  LET o == runCondition(State, loop.cond)
  IN /\ ~sunk
     /\ loop.pc = "cond"
     /\ State' = o.State
     /\ sunk' = o.sunk
     /\ diag' = o.diag
     /\ checked' = IF loop.cond = "*p" THEN [r |-> "p", form |-> "star"]
                   ELSE IF loop.cond = "p" THEN [r |-> "p", form |-> "load"]
                   ELSE NoDeref
     /\ loop' = [loop EXCEPT !.pc = "hook", !.val = condValue(o.State, loop.cond)]
     /\ UNCHANGED <<lost, escaped, volatileShared, hist, MV>>

\* checkLoopCondition, and the arm the path takes
LoopCondition(arm) ==
  LET res == checkLoopCondition(State, loop.cond, loop.blockCount, loop.val)
      succ == loopSuccessors(State, loop.cond, loop.blockCount, loop.val)
  IN /\ ~sunk
     /\ loop.pc = "hook"
     /\ IF res.sink
        THEN /\ arm
             /\ sunk' = TRUE
             /\ UNCHANGED <<State, loop>>
        ELSE /\ \E n \in succ :
                  /\ n.arm = arm
                  /\ State' = n.State
             /\ sunk' = FALSE
             /\ loop' = [loop EXCEPT !.pc = IF ~arm THEN "after"
                                            ELSE IF loop.body = <<>> THEN "guard"
                                            ELSE "body",
                                     !.at = 1]
     /\ diag' = NoDiag
     /\ checked' = NoDeref
     /\ UNCHANGED <<lost, escaped, volatileShared, hist, MV>>

\* one statement of the body
LoopBody ==
  LET stmt == loop.body[loop.at]
      o == IF stmt = "++p" THEN runIncrement(State)
           ELSE IF stmt = "break" THEN outcome(State, checkPostStmtBreak(State))
           ELSE IF stmt \in InnerLoops THEN runInnerLoop(State, stmt, loop.blockCount)
           ELSE runCall(State, callOf(stmt))
  IN /\ ~sunk
     /\ loop.pc = "body"
     /\ State' = o.State
     /\ sunk' = o.sunk
     /\ diag' = o.diag
     /\ checked' = NoDeref
     /\ loop' = [loop EXCEPT !.pc = IF stmt = "break" THEN "after"
                                    ELSE IF loop.at = Len(loop.body) THEN "guard"
                                    ELSE "body",
                             !.at = @ + 1]
     /\ UNCHANGED <<lost, escaped, volatileShared, hist, MV>>

NextLoop ==
  \/ \E b \in BOOLEAN : LoopBefore(b)
  \/ LoopGuard
  \/ LoopEval
  \/ \E arm \in BOOLEAN : LoopCondition(arm)
  \/ LoopBody

InitLoop ==
  /\ State = InitState
  /\ sunk = FALSE
  /\ diag = NoDiag
  /\ checked = NoDeref
  /\ lost = {}
  /\ escaped = "no"
  /\ volatileShared = FALSE
  /\ hist = NoHistory
  /\ MV = NoMods
  /\ loop \in {[cond |-> c, body |-> b, pc |-> "before", blockCount |-> 0, at |-> 0,
                val |-> "-", proved |-> FALSE] : c \in LoopConds, b \in LoopBodies}

SpecLoop == InitLoop /\ [][NextLoop]_vars

\* The nested machine: the body of the loop holds a loop of its own, before
\* or after the statements that modify p and read x.
NestedBodies ==
  {<<i>> : i \in InnerLoops}
    \cup {<<i, s>> : i \in InnerLoops, s \in {"++p", "use(x)"}}
    \cup {<<s, i>> : i \in InnerLoops, s \in {"++p", "use(x)"}}

InitNested ==
  /\ State = InitState
  /\ sunk = FALSE
  /\ diag = NoDiag
  /\ checked = NoDeref
  /\ lost = {}
  /\ escaped = "no"
  /\ volatileShared = FALSE
  /\ hist = NoHistory
  /\ MV = NoMods
  /\ loop \in {[cond |-> c, body |-> b, pc |-> "before", blockCount |-> 0, at |-> 0,
                val |-> "-", proved |-> FALSE] : c \in {"*p", "p"}, b \in NestedBodies}

SpecNested == InitNested /\ [][NextLoop]_vars

(***************************************************************************)
(* Properties of the loops.                                                *)
(***************************************************************************)
\* the body passes p to the opaque call
passesToCall == \E i \in DOMAIN loop.body : loop.body[i] = "any_call(p)"

\* C24: when p is proven non-null before the loop and the body passes p to
\* an opaque call through a non-const parameter, the analysis reaches the
\* condition, and the dereference of p in the condition reports
\* NullablePointerDereference: at the first evaluation when the call is
\* the last modification of p in the body, and at every later evaluation
C24_CallInBodyLosesProof ==
  (loop.cond = "*p" /\ passesToCall /\ loop.proved) =>
    /\ loop.pc # "diverged"
    /\ (checked.form = "star" /\ (loop.blockCount > 1 \/ MV.Modified[locP] = Unsafe))
         => diag = BugNullablePointerDereference

\* the body modifies p, and by increments only; its other statements are
\* calls that take a double by value
safelyModified ==
  /\ \A i \in DOMAIN loop.body : loop.body[i] \in {"++p", "use(x)"}
  /\ \E i \in DOMAIN loop.body : loop.body[i] = "++p"

\* C25: when p is proven non-null before the loop and the body modifies p
\* by Safe modifications only, p is non-null after every evaluation of the
\* condition and in the body, and nothing is reported
C25_SafeModificationKeepsProof ==
  (loop.cond \in {"*p", "p"} /\ safelyModified /\ loop.proved
     /\ loop.pc \in {"hook", "body", "guard"}) =>
    /\ diag = NoDiag
    /\ getNullConstraint(State.Store["p"]) = IsNotNull

\* the arms of the condition the path can take from the state S
arms(S, Cond) == {n.arm : n \in loopSuccessors(S, loop.cond, loop.blockCount, Cond)}

\* C26, as stated: at the second evaluation of the condition the path
\* continues when the condition is constrained true, leaves the loop when
\* it is constrained false, and forks into both when it is unknown
C26_SecondEvaluationForks ==
  (loop.pc = "hook" /\ loop.blockCount = 2) =>
    /\ loop.val = "symTrue" => arms(State, loop.val) = {TRUE}
    /\ loop.val = "symFalse" => arms(State, loop.val) = {FALSE}
    /\ loop.val \in {"sym", "unknown"} => arms(State, loop.val) = {TRUE, FALSE}

\* C26, amended: at the second evaluation of the condition, a value that
\* is not a constant and can be false has the exit for its only
\* successor, with the weaken map empty; a value constrained true
\* continues into the body; a constant that is not zero sinks the path, a
\* zero constant leaves the loop; an UnknownVal forks into both
C26_SecondEvaluationExits ==
  (loop.pc = "hook" /\ loop.blockCount = 2) =>
    \A Cond \in CondValues :
      /\ Cond \in {"sym", "symFalse", "zero"} => arms(State, Cond) = {FALSE}
      /\ Cond = "symTrue" => arms(State, Cond) = {TRUE}
      /\ Cond = "nonzero" => arms(State, Cond) = {}
      /\ Cond = "unknown" => arms(State, Cond) = {TRUE, FALSE}
      /\ Cond # "unknown" =>
           \A n \in loopSuccessors(State, loop.cond, loop.blockCount, Cond) :
             ~n.arm => n.State = clearWeaken(n.State)

\* a path has left the loop at the second evaluation of a condition whose
\* value was not constrained (the guard held: the condition has a modified
\* expression)
C26_Witness ==
  /\ loop.pc = "after"
  /\ loop.blockCount = 2
  /\ loop.val = "sym"
  /\ ConditionModified(MV, loop.cond) # {}
  /\ ~sunk

\* C30: when a path has left the loop, through a break or through the
\* condition being false, the weaken map and its synonyms are empty
C30_WeakenMapEmptyAfterLoop ==
  loop.pc = "after" => State = clearWeaken(State)

convertToPointer(S, k, y) ==
  LET S1 == aliasSymbol(S, y, k)
      TargetConstraint == S1.DNOConstraintMap[k]
  IN IF TargetConstraint = NoConstraint
     THEN [feasible |-> TRUE, null |-> FALSE, State |-> createConstraint(S1, k, Unknown)]
     ELSE IF TargetConstraint # Unknown
     THEN assume(S1, y, TargetConstraint = IsNotNull)
     ELSE [feasible |-> TRUE, null |-> FALSE, State |-> S1]

\* int *q = k.get(): y is a symbol no expression has conjured before.  When
\* evalAssume is left with a null state and uses it, the analysis stops or
\* goes on with the state built so far.
ConvertToSymbol(k, y, stops) ==
  LET res == convertToPointer(State, k, y)
  IN /\ ~sunk
     /\ State.PtrToDNOAliasMap[y] = {}
     /\ stops => res.null
     /\ State' = IF stops THEN State ELSE res.State
     /\ sunk' = stops
     /\ checked' = NoDeref
     /\ UNCHANGED <<diag, lost, escaped, volatileShared, hist, MV, loop>>

\* if (q) / if (!q) for the raw pointer q of symbol y: the arm in which q
\* is non-null (Assumption TRUE) or null
AssumePointer(y, Assumption, stops) ==
  LET res == assume(State, y, Assumption)
  IN /\ ~sunk
     /\ State.PtrToDNOAliasMap[y] # {}
     /\ res.feasible
     /\ stops => res.null
     /\ State' = IF stops THEN State ELSE res.State
     /\ sunk' = stops
     /\ checked' = [r |-> y, form |-> IF res.null THEN "assume (null state)" ELSE "assume"]
     /\ UNCHANGED <<diag, lost, escaped, volatileShared, hist, MV, loop>>

\* the objects a, b of the programs of the assume machine, and the symbols
\* of their raw pointers q, r, s
AssumeObjects == {1, 2}

AssumeSymbols == {1, 2, 3}

NextAssume ==
  \/ \E l \in AssumeObjects, r \in AssumeObjects : BindObject(l, r)
  \/ \E k \in AssumeObjects : MemberCall(k)
  \/ \E k \in AssumeObjects, b \in BOOLEAN : BoolConversion(k, b)
  \/ \E k \in AssumeObjects, b \in BOOLEAN, stops \in BOOLEAN : BoolConversionNull(k, b, stops)
  \/ \E k \in AssumeObjects, y \in AssumeSymbols, stops \in BOOLEAN : ConvertToSymbol(k, y, stops)
  \/ \E y \in AssumeSymbols, b \in BOOLEAN, stops \in BOOLEAN : AssumePointer(y, b, stops)

SpecAssume == Init /\ [][NextAssume]_vars

RECURSIVE pendingOf(_)
pendingOf(Ks) ==
  IF Ks = {} THEN <<>> ELSE <<firstKey(Ks)>> \o pendingOf(Ks \ {firstKey(Ks)})

\* the loop of updateConstraint(State, ImmutableSet<NullableObjectStateKey>,
\* C) from the iterator I to the end iterator E, which is taken before the
\* loop: each pass applies C to the key at I and appends the aliases of
\* that key to Pending.  Visits counts the applications per key.
RECURSIVE visitPending(_, _, _, _, _)
visitPending(S, Pending, I, E, Visits) ==
  IF I > E THEN Visits
  ELSE LET Aliases == S.DNOAliasMap[Pending[I]]
       IN visitPending(S,
                       IF Aliases = NoAliases THEN Pending ELSE Pending \o pendingOf(Aliases),
                       I + 1, E,
                       [Visits EXCEPT ![Pending[I]] = @ + 1])

\* updateConstraint(State, NullableObjectStateKey, C): C is applied to K
\* and then by the loop over the aliases of K
updateVisits(S, K) ==
  LET Aliases == S.DNOAliasMap[K]
      Visits == [k \in Keys |-> IF k = K THEN 1 ELSE 0]
  IN IF Aliases = NoAliases THEN Visits
     ELSE visitPending(S, pendingOf(Aliases), 1, Cardinality(Aliases), Visits)

\* C29: updateConstraint(s, K, C) applies C exactly once to every key that
\* alias edges lead to from K (the loop itself ends on every graph: it
\* makes one pass per alias of K)
C29_UpdateVisitsReachableOnce ==
  \A K \in AliasObjects :
    \A k \in ReachFrom(State, {K}, NumKeys) : updateVisits(State, K)[k] = 1

\* C31: every store of the null value to the ptr_ field of a wrapper reports
\* NullptrToNonNullable, with or without a NullabilityMap entry of the field
C31_NullStoreToWrapperFieldReported ==
  [][\A r \in WrapperFields : Bind(r, "Zero") => diag' = BugNullptrToNonNullable]_vars

\* C32: every load from a region whose escape record is Invalid binds the
\* region to a fresh symbol and makes the record Valid, whatever the null
\* constraint of the value the region holds
C32_LoadRefreshesInvalidRecord ==
  [][\A r \in EscapeRegions :
       (State.EscapedNullable[r].Validity = Invalid /\ Load(r)) =>
         /\ State'.Store[r] = "SymU"
         /\ State'.EscapedNullable[r].Validity = Valid]_vars

\* the body increments p
incrementsP == \E i \in DOMAIN loop.body : loop.body[i] = "++p"

\* C33: when the body of the loop passes p to an opaque call through a
\* non-const reference and also increments it, in either order, the visitor
\* (if it returns) holds the location of p as Unsafe, and the weakening of
\* the expression p is Variant
C33_UnsafeModificationWins ==
  (loop.pc \notin {"-", "before", "diverged"} /\ passesToCall /\ incrementsP) =>
    /\ MV.Modified[locP] = Unsafe
    /\ weakening(MV.Modified[locP]) = Variant
    /\ (loop.pc = "cond" /\ loop.blockCount = 1) => State.WeakenMap["p"] = Variant

\* C34: after the assignment l = r between nullable objects (evalCall, then
\* checkPostCall of the operator call), with r holding a constraint, l has
\* the constraint r had at the assignment and r is among the aliases of l
C34_AssignmentCopiesConstraint ==
  [][\A l \in AliasObjects, r \in AliasObjects :
       (State.DNOConstraintMap[r] # NoConstraint /\ AssignObject(l, r)) =>
         /\ State'.DNOConstraintMap[l] = State.DNOConstraintMap[r]
         /\ State'.DNOAliasMap[l] # NoAliases
         /\ r \in State'.DNOAliasMap[l]]_vars

\* C35: the conversion of a nullable object to bool has no successor that
\* overturns a known constraint: an object that is IsNotNull before the
\* conversion is not IsNull after it, and an object that is IsNull is not
\* IsNotNull
C35_BoolConversionKeepsKnownConstraint ==
  [][\A k \in AliasObjects, b \in BOOLEAN : BoolConversion(k, b) =>
       /\ State.DNOConstraintMap[k] = IsNotNull => State'.DNOConstraintMap[k] # IsNull
       /\ State.DNOConstraintMap[k] = IsNull => State'.DNOConstraintMap[k] # IsNotNull]_vars

\* C36: in the successor of l == r in which the comparison is false, with l
\* Unknown and r IsNotNull before it, l is still Unknown
C36_UnequalToNonNullStaysUnknown ==
  [][\A l \in AliasObjects, r \in AliasObjects :
       (/\ State.DNOConstraintMap[l] = Unknown
        /\ State.DNOConstraintMap[r] = IsNotNull
        /\ Compare(l, r, FALSE)) => State'.DNOConstraintMap[l] = Unknown]_vars

\* C37: the constraint update a conversion to bool makes for either of its
\* arms never assumes a nullness that the constraint manager refuses for a
\* symbol aliased to the object, so that it is never left with a null state
C37_UpdateAssumesNothingRefused ==
  \A k \in AliasObjects, b \in BOOLEAN :
    ~sunk => ~updateConstraint(State, k, IF b THEN IsNotNull ELSE IsNull).null

\* the weaken marks of a state
weakenMarks(S) == {r \in Regions : S.WeakenMap[r] # NoWeaken} \cup S.WeakenExprs

\* C38: a loop inside the body of a loop that is being iterated, once left
\* (by its break or by its condition), leaves the weaken marks that were
\* pending for the enclosing loop where they were
C38_InnerLoopKeepsOuterMarks ==
  [][(/\ loop.pc = "body"
      /\ loop.body[loop.at] \in InnerLoops
      /\ LoopBody) => weakenMarks(State) \subseteq weakenMarks(State')]_vars

\* C39: a dereference of p in the form *p (or p->*m) or p->m, made when p
\* holds a value constrained null (the null constant) and is not recorded
\* as NonNullable or VolatileNullable, reports NullptrDereference
C39_NullDereferenceKind ==
  (/\ checked.r = "p"
   /\ checked.form \in {"star", "arrow"}
   /\ getNullConstraint(State.Store["p"]) = IsNull
   /\ State.NullabilityMap["p"] \notin {NonNullable, VolatileNullable}) =>
     diag = BugNullalbeNullptrDeference


\* C40: in every state a hook has returned, and in the state every update
\* of the alias graph and every assume returns, AliasGuard is false and
\* PtrGuards is empty
C40_GuardsReleased ==
  /\ ~State.AliasGuard
  /\ State.PtrGuards = {}
  /\ \A k \in AssumeObjects, C \in {IsNull, IsNotNull} :
       LET res == updateConstraint(State, k, C)
       IN ~res.null => (~res.State.AliasGuard /\ res.State.PtrGuards = {})
  /\ \A y \in AssumeSymbols, C \in {IsNull, IsNotNull} :
       LET res == updateConstraintOfSymbol(State, y, C)
       IN ~res.null => (~res.State.AliasGuard /\ res.State.PtrGuards = {})
  /\ \A y \in AssumeSymbols, b \in BOOLEAN :
       LET res == assume(State, y, b)
       IN ~res.null => (~res.State.AliasGuard /\ res.State.PtrGuards = {})

\* if (q) has been taken for a pointer q of an object that has a second
\* pointer: the propagation has assumed the second pointer under the guard,
\* and both guards are released
C40_Witness ==
  /\ ~sunk
  /\ checked.form = "assume"
  /\ ~State.AliasGuard
  /\ State.PtrGuards = {}
  /\ \E y \in AssumeSymbols \ {checked.r} :
       /\ State.PtrToDNOAliasMap[y] \cap State.PtrToDNOAliasMap[checked.r] # {}
       /\ State.SymbolConstraints[y] \in {IsNull, IsNotNull}
       /\ State.SymbolConstraints[y] = State.SymbolConstraints[checked.r]

====
